---------------------------- MODULE Spec2Model ----------------------------
(***************************************************************************)
(* Model of the segmented-crawl engine of eth-tx-crawler:                  *)
(*   src/app/etherscan.py  EtherscanClient._get / txlist_page              *)
(*   src/app/main.py       crawl_all_start / crawl_stop / crawl_resume /   *)
(*                         run_job / fetch_txlist_window                   *)
(* Block numbers, page sizes and the query cap are scaled down; every      *)
(* comparison of the source is kept as written.                            *)
(***************************************************************************)
EXTENDS Integers, Sequences, FiniteSets, TLC

(***************************************************************************)
(* Program constants (scaled).                                             *)
(***************************************************************************)
MAX_RECORDS_PER_QUERY == 4
MIN_WINDOW_BLOCKS == 1
MAX_WINDOW_BLOCKS == 4
SAFETY_MAX_SEGMENTS == 3
CACHE_SIZE_LIMIT == 2
JOBS_SIZE_LIMIT == 2
HIGH_ACTIVITY_WINDOW == 1
HIGH_ACTIVITY_SEGMENTS == 2
\* one attempt more than the budget
max_attempts_more == 3 + 1
max_attempts == 3
\* the delays read one place too far
backoff_times_shifted == <<2, 4, 8>>
backoff_times == <<1, 2, 4>>
\* page_size after the clamp of crawl_all_start (scaled from 50..500): one
\* size that divides the query cap and one that does not
PageSizes == {2, 3}

(***************************************************************************)
(* Bounds of the model.                                                    *)
(***************************************************************************)
MaxTip == 3
MaxStops == 1
MaxFaults == 1
MaxBudget == 3
\* the attempts the upstream stands ready to answer for one _get call
AttemptsOffered == 4
\* the jobs ever created
MaxJobs == 4
\* the run_job threads of other jobs that reach the publish block
MaxPublishers == 3
\* the calls of the partial-result endpoints
MaxReaders == 2
\* the start block of the two-window crawl
ScenarioStart == 1

None == <<>>
Some(x) == <<x>>
Val(o) == o[1]

Min(a, b) == IF a < b THEN a ELSE b
Max(a, b) == IF a > b THEN a ELSE b
\* math.ceil(a / b) for positive integers
Ceil(a, b) == (a + b - 1) \div b

(***************************************************************************)
(* The upstream ledger: a sequence of records in ascending block order     *)
(* ("sort": "asc").  A query for a window serves at most the first         *)
(* MAX_RECORDS_PER_QUERY records of the window, cut in pages.              *)
(***************************************************************************)
Rec(h, b, t) == [hash |-> h, blockNumber |-> b, timeStamp |-> t]

\* d records in block b; with dup the same hashes come back in every block
BlockRecords(d, dup, b) ==
    [i \in 1..d |-> Rec(IF dup THEN i ELSE b * MAX_RECORDS_PER_QUERY + i, b, d - i)]

RECURSIVE LedgerFrom(_, _, _, _)
LedgerFrom(d, dup, b, last) ==
    IF b > last THEN <<>>
    ELSE BlockRecords(d, dup, b) \o LedgerFrom(d, dup, b + 1, last)

Ledgers == { LedgerFrom(d, dup, 0, MaxTip) :
                 d \in 0..MAX_RECORDS_PER_QUERY, dup \in BOOLEAN }

InWindow(led, start_blk, end_blk) ==
    SelectSeq(led, LAMBDA r : start_blk <= r.blockNumber /\ r.blockNumber <= end_blk)

Served(led, start_blk, end_blk) ==
    LET all == InWindow(led, start_blk, end_blk)
    IN  SubSeq(all, 1, Min(Len(all), MAX_RECORDS_PER_QUERY))

PageOf(s, page, offset) ==
    SubSeq(s, (page - 1) * offset + 1, Min(page * offset, Len(s)))

\* the upstream's answer to txlist(startblock, endblock, page, offset):
\* status "1" with the page, or status "0" "No transactions found"
TxlistAnswer(led, start_blk, end_blk, page, offset) ==
    LET rows == PageOf(Served(led, start_blk, end_blk), page, offset)
    IN  IF Len(rows) > 0
        THEN [kind |-> "json", status |-> "1", rate_limited |-> FALSE, result |-> rows]
        ELSE [kind |-> "json", status |-> "0", rate_limited |-> FALSE, result |-> <<>>]

\* eth_blockNumber: a JSON-RPC answer, without a status field
BlockNumberAnswer(tip) ==
    [kind |-> "json", status |-> "none", rate_limited |-> FALSE, result |-> tip]

(***************************************************************************)
(* What one HTTP attempt can end in.  "answer" is the upstream's own       *)
(* answer to the query; the others are the conditions _get tells apart.    *)
(***************************************************************************)
AttemptKinds == {"answer", "timeout", "connection", "http429", "http_error",
                 "bad_json", "rate_limit", "exception"}

TransientKinds == {"timeout", "connection", "http429", "bad_json", "exception"}

RateLimitResponse ==
    [kind |-> "json", status |-> "0", rate_limited |-> TRUE, result |-> <<>>]

Outcome(k, answer) ==
    IF k = "answer" THEN answer
    ELSE IF k = "rate_limit" THEN RateLimitResponse
    ELSE [kind |-> k, status |-> "none", rate_limited |-> FALSE, result |-> <<>>]

(***************************************************************************)
(* EtherscanClient._get: the retry loop.  outs[a + 1] is what attempt a    *)
(* (0-based, as in the source) ends in.  The value is what the call did:   *)
(* raised or returned, the JSON returned, the requests issued and the      *)
(* delays slept, in order.                                                 *)
(***************************************************************************)
GetRaise(attempt, slept) ==
    [raised |-> TRUE, value |-> RateLimitResponse, requests |-> attempt + 1,
     slept |-> slept]

GetReturn(o, attempt, slept) ==
    [raised |-> FALSE, value |-> o, requests |-> attempt + 1, slept |-> slept]

\* a retry loop that treats every HTTP error status as it treats 429
RECURSIVE GetAttempt_http_retried(_, _, _)
GetAttempt_http_retried(outs, attempt, slept) ==
    LET o == outs[attempt + 1]
        more == attempt < max_attempts - 1
        again == GetAttempt_http_retried(outs, attempt + 1,
                                         Append(slept, backoff_times[attempt + 1]))
        is_rate_limit == o.status = "0" /\ o.rate_limited
        is_notok == o.status = "0" /\ ~is_rate_limit
    IN  IF o.kind \in TransientKinds \cup {"http_error"}
        THEN IF more THEN again ELSE GetRaise(attempt, slept)
        ELSE IF is_rate_limit /\ more THEN again
        ELSE IF is_notok /\ more THEN again
        ELSE GetReturn(o, attempt, slept)

\* a retry loop that returns a not-OK answer at once
RECURSIVE GetAttempt_notok_returned(_, _, _)
GetAttempt_notok_returned(outs, attempt, slept) ==
    LET o == outs[attempt + 1]
        more == attempt < max_attempts - 1
        again == GetAttempt_notok_returned(outs, attempt + 1,
                                           Append(slept, backoff_times[attempt + 1]))
        is_rate_limit == o.status = "0" /\ o.rate_limited
    IN  IF o.kind = "http_error" THEN GetRaise(attempt, slept)
        ELSE IF o.kind \in TransientKinds
             THEN IF more THEN again ELSE GetRaise(attempt, slept)
        ELSE IF is_rate_limit /\ more THEN again
        ELSE GetReturn(o, attempt, slept)

RECURSIVE GetAttempt(_, _, _)
GetAttempt(outs, attempt, slept) ==
    LET o == outs[attempt + 1]
        more == attempt < max_attempts - 1
        again == GetAttempt(outs, attempt + 1, Append(slept, backoff_times[attempt + 1]))
        is_rate_limit == o.status = "0" /\ o.rate_limited
        is_notok == o.status = "0" /\ ~is_rate_limit
    IN  IF o.kind = "http_error" THEN GetRaise(attempt, slept)
        ELSE IF o.kind \in TransientKinds
             THEN IF more THEN again ELSE GetRaise(attempt, slept)
        ELSE IF is_rate_limit /\ more THEN again
        ELSE IF is_notok /\ more THEN again
        ELSE GetReturn(o, attempt, slept)

get(outs) == GetAttempt(outs, 0, <<>>)

\* EtherscanClient.txlist_page on the value _get returned
txlist_page(data) == IF data.status = "1" THEN data.result ELSE <<>>


(***************************************************************************)
(* State.                                                                  *)
(*   ledger, chain_tip   the upstream: its records and its latest block    *)
(*   job                 JOBS[job_id], the dict of the one tracked job     *)
(*   threads             the run_job threads started so far: each one's    *)
(*                       position and locals                               *)
(*   RESULTS_CACHE, RESULT_IDS, uuids   the result cache and the uuid4     *)
(*                       values handed out                                 *)
(*   nStops, faults, page_requests      history: crawl_stop calls, queries *)
(*                       the transport did not answer faithfully, and page *)
(*                       queries issued                                    *)
(*   fatals              history: queries of the crawl that raised         *)
(*   g_outs, g_answer, g_ret   one call of _get seen alone: what each      *)
(*                       attempt ends in, the upstream's answer, the result*)
(*   JOB_IDS, JOBS       the job store: the FIFO list of job ids and the   *)
(*                       keys of the JOBS dict; job is the dict of job 1   *)
(*   pub                 workers of other jobs in the publish block of     *)
(*                       run_job: each one's position and result_id        *)
(*   readers             calls of the partial-result endpoints: each one's *)
(*                       position and what it read of the accumulator      *)
(*   lockfree            history: the accesses to the accumulator and the  *)
(*                       segment list made outside a JOBS_LOCK block by    *)
(*                       the steps followed statement by statement         *)
(***************************************************************************)
VARIABLES ledger, chain_tip, job, threads, RESULTS_CACHE, RESULT_IDS, uuids,
          nStops, faults, fatals, page_requests, g_outs, g_answer, g_ret,
          JOB_IDS, JOBS, pub, readers, lockfree

vars == <<ledger, chain_tip, job, threads, RESULTS_CACHE, RESULT_IDS, uuids,
          nStops, faults, fatals, page_requests, g_outs, g_answer, g_ret,
          JOB_IDS, JOBS, pub, readers, lockfree>>

crawlVars == <<ledger, chain_tip, job, threads, RESULTS_CACHE, RESULT_IDS, uuids,
               nStops, faults, fatals, page_requests>>

getVars == <<g_outs, g_answer, g_ret>>

storeVars == <<JOB_IDS, JOBS>>

lockVars == <<readers, lockfree>>

(***************************************************************************)
(* The deduplication dict (seen_hashes): entries in insertion order, a key *)
(* at most once; assigning an existing key keeps its place.                *)
(***************************************************************************)
DictHas(d, k) == \E i \in 1..Len(d) : d[i].k = k

\* a list kept in place of the dict: every record appended
DictSet_append(d, k, v) == Append(d, [k |-> k, v |-> v])

DictSet(d, k, v) ==
    IF DictHas(d, k)
    THEN [i \in 1..Len(d) |-> IF d[i].k = k THEN [k |-> k, v |-> v] ELSE d[i]]
    ELSE Append(d, [k |-> k, v |-> v])

DictValues(d) == [i \in 1..Len(d) |-> d[i].v]

\* "if tx_hash:" -- a missing or empty hash is skipped
Truthy(h) == h # 0

\* run_job, "Add transactions (deduplicate)"
RECURSIVE MergeTxs(_, _)
MergeTxs(d, txs) ==
    IF txs = <<>> THEN d
    ELSE LET tx == Head(txs)
         IN  MergeTxs(IF Truthy(tx.hash) THEN DictSet(d, tx.hash, tx) ELSE d, Tail(txs))

\* the sort key of the final list: (int(blockNumber), int(timeStamp))
\* a key of the block number alone
SortKeyLess_block(a, b) == a.blockNumber < b.blockNumber

SortKeyLess(a, b) ==
    \/ a.blockNumber < b.blockNumber
    \/ a.blockNumber = b.blockNumber /\ a.timeStamp < b.timeStamp

\* sorted(): stable.  The place of s[i] in the sorted list: after every
\* element with a smaller key and every earlier element with an equal key
Rank(s, i) ==
    1 + Cardinality({ k \in 1..Len(s) :
                        \/ SortKeyLess(s[k], s[i])
                        \/ ~SortKeyLess(s[i], s[k]) /\ k < i })

sorted(s) == [n \in 1..Len(s) |-> s[CHOOSE i \in 1..Len(s) : Rank(s, i) = n]]

(***************************************************************************)
(* crawl_all_start: the job dict as created.                               *)
(***************************************************************************)
NewJob(start_block, page_size, max_pages_int) ==
    [start_block |-> start_block,
     page_size |-> page_size,
     max_pages_int |-> max_pages_int,
     latest_block |-> None,
     seg_start |-> start_block,
     window_blocks |-> MAX_WINDOW_BLOCKS,
     pages_total |-> 0,
     segments_done |-> 0,
     eth_total_unique |-> 0,
     coverage_start |-> start_block,
     coverage_end |-> start_block - 1,
     stop_requested |-> FALSE,
     running |-> FALSE,
     done |-> FALSE,
     paused |-> FALSE,
     error |-> "None",
     rid |-> None,
     seen_hashes |-> <<>>,
     segments |-> <<>>,
     high_activity |-> FALSE,
     high_activity_reason |-> "" ]

\* the locals of a run_job thread that has not entered a window fetch
Locals(pc, latest_block, pages_total, window_blocks, seg_start, segment_num) ==
    [pc |-> pc,
     latest_block |-> latest_block,
     pages_total |-> pages_total,
     window_blocks |-> window_blocks,
     seg_start |-> seg_start,
     seg_end |-> 0,
     segment_num |-> segment_num,
     collected |-> <<>>,
     current_page |-> 1,
     cap_hit |-> FALSE,
     truncated |-> FALSE,
     paused_hit |-> FALSE,
     cap_unresolvable |-> FALSE,
     result_id |-> 0,
     merged |-> 0]

NewThread == Locals("start", 0, 0, 0, 0, 0)
Returned == Locals("returned", 0, 0, 0, 0, 0)

(***************************************************************************)
(* run_job, step by step.  Each step is a function of the job dict j and   *)
(* the thread's locals l, and gives both back; a step is one lock block    *)
(* together with the lock-free code around it.                             *)
(***************************************************************************)
St(j, l) == [j |-> j, l |-> l]

\* run_job entry (under JOBS_LOCK)
run_start(j, l) ==
    St([j EXCEPT !.running = TRUE, !.paused = FALSE, !.done = FALSE, !.error = "None"],
       [l EXCEPT !.pc = "tip"])

\* a handler that records the error and leaves running as it was
run_except_running(j, l) ==
    St([j EXCEPT !.done = TRUE, !.error = "Error"], Returned)

\* a handler that ends the job without recording the error
run_except_silent(j, l) ==
    St([j EXCEPT !.running = FALSE, !.done = TRUE], Returned)

\* run_job, "except Exception as e"
run_except(j, l) ==
    St([j EXCEPT !.running = FALSE, !.done = TRUE, !.error = "Error"], Returned)

\* get_latest_block and the restore of the saved state; r is what _get did
run_tip(j, l, r) ==
    IF r.raised \/ r.value.status = "0"      \* int(<rate-limit text>, 16) raises
    THEN run_except(j, l)
    ELSE St([j EXCEPT !.latest_block = Some(r.value.result)],
            Locals("loop", r.value.result, j.pages_total, j.window_blocks,
                   j.seg_start, j.segments_done))

\* a pause that leaves the job's window_blocks as the last segment saved it
PauseJob_nowindow(j, seg_start, window_blocks, pages_total, segment_num) ==
    [j EXCEPT !.running = FALSE, !.done = FALSE, !.paused = TRUE,
              !.stop_requested = FALSE, !.error = "None",
              !.seg_start = seg_start,
              !.pages_total = pages_total,
              !.segments_done = segment_num,
              !.coverage_end = IF j.segments # <<>>
                               THEN j.segments[Len(j.segments)].end
                               ELSE j.coverage_end]

\* a pause that leaves running set
PauseJob_running(j, seg_start, window_blocks, pages_total, segment_num) ==
    [j EXCEPT !.done = FALSE, !.paused = TRUE,
              !.stop_requested = FALSE, !.error = "None",
              !.seg_start = seg_start,
              !.window_blocks = window_blocks,
              !.pages_total = pages_total,
              !.segments_done = segment_num,
              !.coverage_end = IF j.segments # <<>>
                               THEN j.segments[Len(j.segments)].end
                               ELSE j.coverage_end]

\* the block both pause exits run: "Save state for resume"
PauseJob(j, seg_start, window_blocks, pages_total, segment_num) ==
    [j EXCEPT !.running = FALSE, !.done = FALSE, !.paused = TRUE,
              !.stop_requested = FALSE, !.error = "None",
              !.seg_start = seg_start,
              !.window_blocks = window_blocks,
              !.pages_total = pages_total,
              !.segments_done = segment_num,
              !.coverage_end = IF j.segments # <<>>
                               THEN j.segments[Len(j.segments)].end
                               ELSE j.coverage_end]

\* a loop top that does not clip the window at the tip
run_loop_unclipped(j, l) ==
    IF ~(l.seg_start <= l.latest_block) THEN St(j, [l EXCEPT !.pc = "finish"])
    ELSE IF j.stop_requested
    THEN St(PauseJob(j, l.seg_start, l.window_blocks, l.pages_total, l.segment_num),
            Returned)
    ELSE LET seg_end == l.seg_start + l.window_blocks - 1
             segment_num == l.segment_num + 1
         IN  IF segment_num > SAFETY_MAX_SEGMENTS
             THEN St([j EXCEPT !.running = FALSE, !.done = TRUE,
                               !.error = "Safety limit reached"], Returned)
             ELSE St(j, [l EXCEPT !.pc = "f_pre", !.seg_end = seg_end,
                                  !.segment_num = segment_num])

\* top of the while loop: loop test, stop check, seg_end, safety check
run_loop(j, l) ==
    IF ~(l.seg_start <= l.latest_block) THEN St(j, [l EXCEPT !.pc = "finish"])
    ELSE IF j.stop_requested
    THEN St(PauseJob(j, l.seg_start, l.window_blocks, l.pages_total, l.segment_num),
            Returned)
    ELSE LET seg_end == Min(l.seg_start + l.window_blocks - 1, l.latest_block)
             segment_num == l.segment_num + 1
         IN  IF segment_num > SAFETY_MAX_SEGMENTS
             THEN St([j EXCEPT !.running = FALSE, !.done = TRUE,
                               !.error = "Safety limit reached"], Returned)
             ELSE St(j, [l EXCEPT !.pc = "f_pre", !.seg_end = seg_end,
                                  !.segment_num = segment_num])

\* the budget check made one page late
fetch_pre_late(j, l) ==
    IF j.stop_requested
    THEN St(j, [l EXCEPT !.paused_hit = TRUE, !.pc = "fetched"])
    ELSE IF j.max_pages_int # None /\ l.pages_total + l.current_page > Val(j.max_pages_int) + 1
    THEN St(j, [l EXCEPT !.truncated = TRUE, !.pc = "fetched"])
    ELSE St(j, [l EXCEPT !.pc = "f_wait"])

\* the checks before a page request without the one on the stop flag
fetch_pre_nostop(j, l) ==
    IF j.max_pages_int # None /\ l.pages_total + l.current_page > Val(j.max_pages_int)
    THEN St(j, [l EXCEPT !.truncated = TRUE, !.pc = "fetched"])
    ELSE St(j, [l EXCEPT !.pc = "f_wait"])

\* the budget checked as well after the stop flag was found set
fetch_pre_bothflags(j, l) ==
    LET over == j.max_pages_int # None
                  /\ l.pages_total + l.current_page > Val(j.max_pages_int)
    IN  IF j.stop_requested
        THEN St(j, [l EXCEPT !.paused_hit = TRUE, !.truncated = over, !.pc = "fetched"])
        ELSE IF over
        THEN St(j, [l EXCEPT !.truncated = TRUE, !.pc = "fetched"])
        ELSE St(j, [l EXCEPT !.pc = "f_wait"])

\* fetch_txlist_window: the checks before a page request
fetch_pre(j, l) ==
    IF j.stop_requested
    THEN St(j, [l EXCEPT !.paused_hit = TRUE, !.pc = "fetched"])
    ELSE IF j.max_pages_int # None /\ l.pages_total + l.current_page > Val(j.max_pages_int)
    THEN St(j, [l EXCEPT !.truncated = TRUE, !.pc = "fetched"])
    ELSE St(j, [l EXCEPT !.pc = "f_wait"])

\* "Cap detection", after current_page += 1
CapDetected(current_page, chunk_len, collected_len, page_size) ==
    \/ current_page > Ceil(MAX_RECORDS_PER_QUERY, page_size) /\ chunk_len = page_size
    \/ collected_len >= MAX_RECORDS_PER_QUERY

\* a stop found after the response discards the page just fetched
fetch_page_drop(j, l, r) ==
    IF r.raised THEN run_except(j, l)
    ELSE
    LET chunk == txlist_page(r.value)
        collected == l.collected \o chunk
        page_size == j.page_size
        l1 == [l EXCEPT !.collected = collected]
    IN  IF j.stop_requested
        THEN St(j, [l EXCEPT !.paused_hit = TRUE, !.pc = "fetched"])
        ELSE IF Len(chunk) < page_size
        THEN St(j, [l1 EXCEPT !.pc = "fetched"])
        ELSE LET current_page == l.current_page + 1
                 window_size == l.seg_end - l.seg_start + 1
             IN  IF CapDetected(current_page, Len(chunk), Len(collected), page_size)
                 THEN St(j, [l1 EXCEPT !.current_page = current_page,
                                       !.cap_hit = TRUE,
                                       !.cap_unresolvable = (window_size <= MIN_WINDOW_BLOCKS),
                                       !.pc = "fetched"])
                 ELSE St(j, [l1 EXCEPT !.current_page = current_page, !.pc = "f_pre"])

\* fetch_txlist_window: the page comes back (r is what _get did), then the
\* checks after a page
fetch_page(j, l, r) ==
    IF r.raised THEN run_except(j, l)
    ELSE
    LET chunk == txlist_page(r.value)
        collected == l.collected \o chunk
        page_size == j.page_size
        l1 == [l EXCEPT !.collected = collected]
    IN  IF j.stop_requested
        THEN St(j, [l1 EXCEPT !.paused_hit = TRUE, !.pc = "fetched"])
        ELSE IF Len(chunk) < page_size
        THEN St(j, [l1 EXCEPT !.pc = "fetched"])
        ELSE LET current_page == l.current_page + 1
                 window_size == l.seg_end - l.seg_start + 1
             IN  IF CapDetected(current_page, Len(chunk), Len(collected), page_size)
                 THEN St(j, [l1 EXCEPT !.current_page = current_page,
                                       !.cap_hit = TRUE,
                                       !.cap_unresolvable = (window_size <= MIN_WINDOW_BLOCKS),
                                       !.pc = "fetched"])
                 ELSE St(j, [l1 EXCEPT !.current_page = current_page, !.pc = "f_pre"])

\* "Check for high activity condition" after a halving
HighActivityWindow(j, window_blocks) ==
    IF window_blocks <= HIGH_ACTIVITY_WINDOW /\ ~j.high_activity
    THEN [j EXCEPT !.high_activity = TRUE, !.high_activity_reason = "window"]
    ELSE j

\* "Check for high activity condition (segment count)"
HighActivitySegments(j, segment_num) ==
    IF segment_num >= HIGH_ACTIVITY_SEGMENTS /\ ~j.high_activity
    THEN [j EXCEPT !.high_activity = TRUE, !.high_activity_reason = "segments"]
    ELSE j

\* a cap-hit retry that is counted as a segment
run_fetched_retry_counted(j, l) ==
    LET pages_used == l.current_page
        pages_total == l.pages_total + pages_used
    IN  IF l.paused_hit
        THEN St(PauseJob(j, l.seg_start, l.window_blocks, pages_total, l.segment_num),
                Returned)
        ELSE IF l.truncated
        THEN St([j EXCEPT !.running = FALSE, !.done = TRUE,
                          !.error = "Stopped due to max_pages limit"],
                Locals("finish", l.latest_block, pages_total, l.window_blocks,
                       l.seg_start, l.segment_num))
        ELSE IF l.cap_hit
        THEN IF l.cap_unresolvable
             THEN St([j EXCEPT !.running = FALSE, !.done = TRUE,
                               !.error = "Even a window of min block(s) exceeds cap"],
                     Returned)
             ELSE IF l.window_blocks > MIN_WINDOW_BLOCKS
             THEN LET window_blocks == Max(l.window_blocks \div 2, MIN_WINDOW_BLOCKS)
                  IN  St(HighActivityWindow(j, window_blocks),
                         Locals("loop", l.latest_block, pages_total, window_blocks,
                                l.seg_start, l.segment_num))
             ELSE St([j EXCEPT !.running = FALSE, !.done = TRUE,
                               !.error = "Cap hit at minimum window size"],
                     Returned)
        ELSE St([j EXCEPT !.seen_hashes = MergeTxs(j.seen_hashes, l.collected),
                          !.segments = Append(j.segments,
                                              [start |-> l.seg_start,
                                               end |-> l.seg_end,
                                               pages |-> pages_used,
                                               tx_count |-> Len(l.collected)])],
                [l EXCEPT !.pc = "progress", !.pages_total = pages_total,
                          !.collected = <<>>, !.current_page = 1])



\* a run that merges what a paused fetch had collected before it pauses
run_fetched_pause_merges(j, l) ==
    LET pages_used == l.current_page
        pages_total == l.pages_total + pages_used
    IN  IF l.paused_hit
        THEN St(PauseJob([j EXCEPT !.seen_hashes = MergeTxs(j.seen_hashes, l.collected)],
                         l.seg_start, l.window_blocks, pages_total, l.segment_num),
                Returned)
        ELSE IF l.truncated
        THEN St([j EXCEPT !.running = FALSE, !.done = TRUE,
                          !.error = "Stopped due to max_pages limit"],
                Locals("finish", l.latest_block, pages_total, l.window_blocks,
                       l.seg_start, l.segment_num))
        ELSE IF l.cap_hit
        THEN IF l.cap_unresolvable
             THEN St([j EXCEPT !.running = FALSE, !.done = TRUE,
                               !.error = "Even a window of min block(s) exceeds cap"],
                     Returned)
             ELSE IF l.window_blocks > MIN_WINDOW_BLOCKS
             THEN LET window_blocks == Max(l.window_blocks \div 2, MIN_WINDOW_BLOCKS)
                  IN  St(HighActivityWindow(j, window_blocks),
                         Locals("loop", l.latest_block, pages_total, window_blocks,
                                l.seg_start, l.segment_num - 1))
             ELSE St([j EXCEPT !.running = FALSE, !.done = TRUE,
                               !.error = "Cap hit at minimum window size"],
                     Returned)
        ELSE St([j EXCEPT !.seen_hashes = MergeTxs(j.seen_hashes, l.collected),
                          !.segments = Append(j.segments,
                                              [start |-> l.seg_start,
                                               end |-> l.seg_end,
                                               pages |-> pages_used,
                                               tx_count |-> Len(l.collected)])],
                [l EXCEPT !.pc = "progress", !.pages_total = pages_total,
                          !.collected = <<>>, !.current_page = 1])

\* run_job after fetch_txlist_window returned: pages_total, the four exits,
\* and for a drained window the merge and the segment record
run_fetched(j, l) ==
    LET pages_used == l.current_page
        pages_total == l.pages_total + pages_used
    IN  IF l.paused_hit
        THEN St(PauseJob(j, l.seg_start, l.window_blocks, pages_total, l.segment_num),
                Returned)
        ELSE IF l.truncated
        THEN St([j EXCEPT !.running = FALSE, !.done = TRUE,
                          !.error = "Stopped due to max_pages limit"],
                Locals("finish", l.latest_block, pages_total, l.window_blocks,
                       l.seg_start, l.segment_num))
        ELSE IF l.cap_hit
        THEN IF l.cap_unresolvable
             THEN St([j EXCEPT !.running = FALSE, !.done = TRUE,
                               !.error = "Even a window of min block(s) exceeds cap"],
                     Returned)
             ELSE IF l.window_blocks > MIN_WINDOW_BLOCKS
             THEN LET window_blocks == Max(l.window_blocks \div 2, MIN_WINDOW_BLOCKS)
                  IN  St(HighActivityWindow(j, window_blocks),
                         Locals("loop", l.latest_block, pages_total, window_blocks,
                                l.seg_start, l.segment_num - 1))
             ELSE St([j EXCEPT !.running = FALSE, !.done = TRUE,
                               !.error = "Cap hit at minimum window size"],
                     Returned)
        ELSE St([j EXCEPT !.seen_hashes = MergeTxs(j.seen_hashes, l.collected),
                          !.segments = Append(j.segments,
                                              [start |-> l.seg_start,
                                               end |-> l.seg_end,
                                               pages |-> pages_used,
                                               tx_count |-> Len(l.collected)])],
                [l EXCEPT !.pc = "progress", !.pages_total = pages_total,
                          !.collected = <<>>, !.current_page = 1])

\* the next window started on the last block of the segment
run_progress_overlap(j, l) ==
    LET j1 == [j EXCEPT !.seg_start = l.seg_end,
                        !.segments_done = l.segment_num,
                        !.pages_total = l.pages_total,
                        !.eth_total_unique = Len(j.seen_hashes),
                        !.window_blocks = l.window_blocks,
                        !.coverage_end = l.seg_end]
        j2 == HighActivityWindow(HighActivitySegments(j1, l.segment_num), l.window_blocks)
        window_blocks == IF l.window_blocks < MAX_WINDOW_BLOCKS
                         THEN Min(l.window_blocks * 2, MAX_WINDOW_BLOCKS)
                         ELSE l.window_blocks
    IN  St(j2, Locals("loop", l.latest_block, l.pages_total, window_blocks,
                      l.seg_end, l.segment_num))

\* "Update progress state after segment completion", then the next window
run_progress(j, l) ==
    LET j1 == [j EXCEPT !.seg_start = l.seg_end + 1,
                        !.segments_done = l.segment_num,
                        !.pages_total = l.pages_total,
                        !.eth_total_unique = Len(j.seen_hashes),
                        !.window_blocks = l.window_blocks,
                        !.coverage_end = l.seg_end]
        j2 == HighActivityWindow(HighActivitySegments(j1, l.segment_num), l.window_blocks)
        window_blocks == IF l.window_blocks < MAX_WINDOW_BLOCKS
                         THEN Min(l.window_blocks * 2, MAX_WINDOW_BLOCKS)
                         ELSE l.window_blocks
    IN  St(j2, Locals("loop", l.latest_block, l.pages_total, window_blocks,
                      l.seg_end + 1, l.segment_num))

\* the final list: sorted(all_txs_raw_dict.values(), key=...)
FinalRecords(j) == sorted(DictValues(j.seen_hashes))

\* "Compute coverage from segments"
FinalCoverageStart(j) ==
    IF j.segments # <<>> THEN j.segments[1].start ELSE j.start_block

FinalCoverageEnd(j, latest_block) ==
    IF j.segments # <<>> THEN j.segments[Len(j.segments)].end ELSE latest_block

\* the entry written to RESULTS_CACHE
ResultOf(j, latest_block) ==
    LET all_txs_raw == FinalRecords(j)
    IN  [eth_txs |-> all_txs_raw,
         start_block |-> j.start_block,
         latest_block |-> latest_block,
         eth_total |-> Len(all_txs_raw),
         coverage_start |-> FinalCoverageStart(j),
         coverage_end |-> FinalCoverageEnd(j, latest_block),
         segments |-> j.segments]

\* after the loop: the job's final coverage_end (under JOBS_LOCK)
run_finish(j, l, result_id) ==
    St([j EXCEPT !.coverage_end = FinalCoverageEnd(j, l.latest_block)],
       [l EXCEPT !.pc = "mark_done", !.result_id = result_id])

\* a final lock block that does not record the result identifier
run_mark_done_norid(j, l) ==
    St([j EXCEPT !.running = FALSE, !.done = TRUE,
                 !.eth_total_unique = Len(FinalRecords(j))],
       Returned)

\* "Update job status"
run_mark_done(j, l) ==
    St([j EXCEPT !.running = FALSE, !.done = TRUE, !.rid = Some(l.result_id),
                 !.eth_total_unique = Len(FinalRecords(j))],
       Returned)

(***************************************************************************)
(* The result cache: RESULTS_CACHE[result_id] = entry, RESULT_IDS FIFO.    *)
(***************************************************************************)
CachePut(cache, rid, entry) ==
    [r \in (DOMAIN cache) \cup {rid} |-> IF r = rid THEN entry ELSE cache[r]]

CacheDel(cache, rid) == [r \in (DOMAIN cache) \ {rid} |-> cache[r]]

\* "Manage cache size"
CacheAfterPublish(cache, ids, rid, entry) ==
    LET c1 == CachePut(cache, rid, entry)
        ids1 == Append(ids, rid)
    IN  IF Len(ids1) > CACHE_SIZE_LIMIT
        THEN [cache |-> CacheDel(c1, Head(ids1)), ids |-> Tail(ids1)]
        ELSE [cache |-> c1, ids |-> ids1]

(***************************************************************************)
(* What the transport may do to one query of a crawl: answer (possibly     *)
(* after retries), fail on every attempt, or be rate limited throughout.   *)
(***************************************************************************)
Healthy == <<"answer", "answer", "answer">>

CrawlAttempts == { Healthy,
                   <<"timeout", "rate_limit", "answer">>,
                   <<"http429", "http429", "http429">>,
                   <<"http_error", "answer", "answer">>,
                   <<"rate_limit", "rate_limit", "rate_limit">> }

Query(kinds, answer) == get([a \in DOMAIN kinds |-> Outcome(kinds[a], answer)])

\* a query the transport did not answer as the upstream would have
Faulty(kinds, answer) ==
    LET r == Query(kinds, answer)
        h == Query(Healthy, answer)
    IN  r.raised # h.raised \/ r.value # h.value

(***************************************************************************)
(* Actions of a run_job thread t.                                          *)
(***************************************************************************)
Apply(t, st) ==
    /\ job' = st.j
    /\ threads' = [threads EXCEPT ![t] = st.l]

Start(t) ==
    /\ threads[t].pc = "start"
    /\ Apply(t, run_start(job, threads[t]))
    /\ UNCHANGED <<ledger, chain_tip, RESULTS_CACHE, RESULT_IDS, uuids,
                   nStops, faults, fatals, page_requests, getVars,
                   storeVars, pub, lockVars>>

Tip(t) ==
    /\ threads[t].pc = "tip"
    /\ \E kinds \in CrawlAttempts :
         LET answer == BlockNumberAnswer(chain_tip)
             bad == Faulty(kinds, answer)
         IN  /\ bad => faults < MaxFaults
             /\ faults' = IF bad THEN faults + 1 ELSE faults
             /\ fatals' = IF Query(kinds, answer).raised THEN fatals + 1 ELSE fatals
             /\ Apply(t, run_tip(job, threads[t], Query(kinds, answer)))
    /\ UNCHANGED <<ledger, chain_tip, RESULTS_CACHE, RESULT_IDS, uuids,
                   nStops, page_requests, getVars,
                   storeVars, pub, lockVars>>

Loop(t) ==
    /\ threads[t].pc = "loop"
    /\ Apply(t, run_loop(job, threads[t]))
    /\ UNCHANGED <<ledger, chain_tip, RESULTS_CACHE, RESULT_IDS, uuids,
                   nStops, faults, fatals, page_requests, getVars,
                   storeVars, pub, lockVars>>

FetchPre(t) ==
    /\ threads[t].pc = "f_pre"
    /\ Apply(t, fetch_pre(job, threads[t]))
    /\ page_requests' = IF threads'[t].pc = "f_wait"
                        THEN page_requests + 1 ELSE page_requests
    /\ UNCHANGED <<ledger, chain_tip, RESULTS_CACHE, RESULT_IDS, uuids,
                   nStops, faults, fatals, getVars,
                   storeVars, pub, lockVars>>

FetchPage(t) ==
    /\ threads[t].pc = "f_wait"
    /\ \E kinds \in CrawlAttempts :
         LET l == threads[t]
             answer == TxlistAnswer(ledger, l.seg_start, l.seg_end,
                                    l.current_page, job.page_size)
             bad == Faulty(kinds, answer)
         IN  /\ bad => faults < MaxFaults
             /\ faults' = IF bad THEN faults + 1 ELSE faults
             /\ fatals' = IF Query(kinds, answer).raised THEN fatals + 1 ELSE fatals
             /\ Apply(t, fetch_page(job, l, Query(kinds, answer)))
    /\ UNCHANGED <<ledger, chain_tip, RESULTS_CACHE, RESULT_IDS, uuids,
                   nStops, page_requests, getVars,
                   storeVars, pub, lockVars>>

Fetched(t) ==
    /\ threads[t].pc = "fetched"
    /\ Apply(t, run_fetched(job, threads[t]))
    /\ UNCHANGED <<ledger, chain_tip, RESULTS_CACHE, RESULT_IDS, uuids,
                   nStops, faults, fatals, page_requests, getVars,
                   storeVars, pub, lockVars>>

Progress(t) ==
    /\ threads[t].pc = "progress"
    /\ Apply(t, run_progress(job, threads[t]))
    /\ UNCHANGED <<ledger, chain_tip, RESULTS_CACHE, RESULT_IDS, uuids,
                   nStops, faults, fatals, page_requests, getVars,
                   storeVars, pub, lockVars>>

\* sort, coverage, the RESULTS_CACHE entry and the cache's size
Finish(t) ==
    /\ threads[t].pc = "finish"
    /\ LET result_id == uuids + 1
           c == CacheAfterPublish(RESULTS_CACHE, RESULT_IDS, result_id,
                                  ResultOf(job, threads[t].latest_block))
       IN  /\ uuids' = result_id
           /\ RESULTS_CACHE' = c.cache
           /\ RESULT_IDS' = c.ids
           /\ Apply(t, run_finish(job, threads[t], result_id))
    /\ UNCHANGED <<ledger, chain_tip, nStops, faults, fatals, page_requests, getVars,
                   storeVars, pub, lockVars>>

MarkDone(t) ==
    /\ threads[t].pc = "mark_done"
    /\ Apply(t, run_mark_done(job, threads[t]))
    /\ UNCHANGED <<ledger, chain_tip, RESULTS_CACHE, RESULT_IDS, uuids,
                   nStops, faults, fatals, page_requests, getVars,
                   storeVars, pub, lockVars>>

(***************************************************************************)
(* The endpoints.                                                          *)
(***************************************************************************)
\* "if job_id not in JOBS": the endpoints answer 404 for a job the store
\* no longer tracks
Tracked == 1 \in JOBS

crawl_stop ==
    /\ nStops < MaxStops
    /\ IF Tracked
       THEN /\ nStops' = nStops + 1
            /\ job' = [job EXCEPT !.stop_requested = TRUE]
       ELSE UNCHANGED <<nStops, job>>
    /\ UNCHANGED <<ledger, chain_tip, threads, RESULTS_CACHE, RESULT_IDS, uuids,
                   faults, fatals, page_requests, getVars,
                   storeVars, pub, lockVars>>

\* a resume that sends the cursor back to the start block
ResumedJob_restart(j) ==
    LET j1 == [j EXCEPT !.paused = FALSE, !.stop_requested = FALSE,
                        !.running = TRUE, !.error = "None"]
    IN  [j1 EXCEPT !.seg_start = j.start_block]

\* the job as crawl_resume leaves it when it accepts
ResumedJob(j) ==
    LET j1 == [j EXCEPT !.paused = FALSE, !.stop_requested = FALSE,
                        !.running = TRUE, !.error = "None"]
    IN  [j1 EXCEPT !.seg_start = j.coverage_end + 1]

\* the checks without the one on paused
ResumeAccepted_unpaused(j) == ~j.running /\ ~j.done

ResumeAccepted(j) == j.paused /\ ~j.running /\ ~j.done

\* the error crawl_resume answers with, by the first check that fails
ResumeError(j) ==
    IF ~j.paused THEN "Job is not paused"
    ELSE IF j.running THEN "Job is already running"
    ELSE "Job is already done"

\* the pause state reset before the checks are made
crawl_resume_call_resets(j) ==
    IF ResumeAccepted(j)
    THEN [job |-> ResumedJob(j), launched |-> TRUE, reply |-> "resumed"]
    ELSE [job |-> [j EXCEPT !.stop_requested = FALSE, !.error = "None"],
          launched |-> FALSE, reply |-> ResumeError(j)]

\* crawl_resume on the job dict j: the dict it leaves, whether it started a
\* thread, and its reply
crawl_resume_call(j) ==
    IF ResumeAccepted(j)
    THEN [job |-> ResumedJob(j), launched |-> TRUE, reply |-> "resumed"]
    ELSE [job |-> j, launched |-> FALSE, reply |-> ResumeError(j)]

crawl_resume ==
    /\ IF Tracked
       THEN LET r == crawl_resume_call(job)
            IN  /\ job' = r.job
                /\ threads' = IF r.launched THEN Append(threads, NewThread)
                                             ELSE threads
       ELSE UNCHANGED <<job, threads>>
    /\ UNCHANGED <<ledger, chain_tip, RESULTS_CACHE, RESULT_IDS, uuids,
                   nStops, faults, fatals, page_requests, getVars,
                   storeVars, pub, lockVars>>

(***************************************************************************)
(* run_job after a drained window, statement by statement: the merge loop  *)
(* and segments.append run outside every JOBS_LOCK block, on the dict and  *)
(* the list the job holds.                                                 *)
(***************************************************************************)
Access(who, op, field) == [who |-> who, op |-> op, field |-> field]

\* the window fetch returned with none of its flags set
Drained(l) == ~l.paused_hit /\ ~l.truncated /\ ~l.cap_hit

\* the thread is between the first store into the accumulator and the
\* append of the segment
Merging(l) == l.pc = "fetched" /\ Drained(l) /\ l.merged > 0

\* the pause, budget and cap exits: one JOBS_LOCK block each
FetchedExit(t) ==
    /\ threads[t].pc = "fetched"
    /\ ~Drained(threads[t])
    /\ Apply(t, run_fetched(job, threads[t]))
    /\ UNCHANGED <<ledger, chain_tip, RESULTS_CACHE, RESULT_IDS, uuids,
                   nStops, faults, fatals, page_requests, getVars,
                   storeVars, pub, lockVars>>

\* one turn of "for tx in window_txs"
MergeTx(t) ==
    /\ threads[t].pc = "fetched"
    /\ Drained(threads[t])
    /\ threads[t].merged < Len(threads[t].collected)
    /\ job' = [job EXCEPT !.seen_hashes =
                   MergeTxs(job.seen_hashes,
                            <<threads[t].collected[threads[t].merged + 1]>>)]
    /\ threads' = [threads EXCEPT ![t].merged = threads[t].merged + 1]
    /\ lockfree' = lockfree \cup {Access("run_job", "write", "seen_hashes")}
    /\ UNCHANGED <<ledger, chain_tip, RESULTS_CACHE, RESULT_IDS, uuids,
                   nStops, faults, fatals, page_requests, getVars,
                   storeVars, pub, readers>>

\* segments.append({...}) after the merge loop
AppendSegment(t) ==
    /\ threads[t].pc = "fetched"
    /\ Drained(threads[t])
    /\ threads[t].merged = Len(threads[t].collected)
    /\ LET l == threads[t]
           st == run_fetched(job, l)
       IN  /\ job' = [job EXCEPT !.segments = st.j.segments]
           /\ threads' = [threads EXCEPT ![t] = [st.l EXCEPT !.merged = 0]]
    /\ lockfree' = lockfree \cup {Access("run_job", "write", "segments")}
    /\ UNCHANGED <<ledger, chain_tip, RESULTS_CACHE, RESULT_IDS, uuids,
                   nStops, faults, fatals, page_requests, getVars,
                   storeVars, pub, readers>>

(***************************************************************************)
(* The partial-result endpoints results_partial and                        *)
(* download_partial_results: the lookup of the job under JOBS_LOCK, then   *)
(* the read of job["seen_hashes"] after the block.                         *)
(***************************************************************************)
PartialEndpoints == <<"results_partial", "download_partial_results">>

Reader(pc, seen, torn) == [pc |-> pc, seen |-> seen, torn |-> torn]

\* "with JOBS_LOCK: if job_id not in JOBS: return ...; job = JOBS[job_id]"
PartialLookup(r) ==
    /\ readers[r].pc = "lookup"
    /\ readers' = [readers EXCEPT ![r].pc = IF Tracked THEN "read" ELSE "done"]
    /\ UNCHANGED <<crawlVars, getVars, storeVars, pub, lockfree>>

\* all_txs_raw_dict = job.get("seen_hashes", {}) and its len() or sorted():
\* seen is the number of records read, torn whether a run_job thread was
\* inside its merge at that moment
PartialRead(r) ==
    /\ readers[r].pc = "read"
    /\ readers' = [readers EXCEPT ![r] =
                       Reader("done", Len(job.seen_hashes),
                              \E t \in DOMAIN threads : Merging(threads[t]))]
    /\ lockfree' = lockfree \cup {Access(PartialEndpoints[r], "read", "seen_hashes")}
    /\ UNCHANGED <<crawlVars, getVars, storeVars, pub>>

(***************************************************************************)
(* crawl_all_start and the job store.  Job ids (uuid4) are the numbers of  *)
(* the jobs in creation order.  Of the jobs created here only the store    *)
(* entries are followed, not their run_job threads.                        *)
(***************************************************************************)
\* a store that appends and never evicts
StoreAfterCreate_keep(ids, jobs, job_id) ==
    [ids |-> Append(ids, job_id), jobs |-> jobs \cup {job_id}]

\* "Clean up old jobs if over limit (FIFO)", then JOBS[job_id] = {...}
StoreAfterCreate(ids, jobs, job_id) ==
    LET ids1 == Append(ids, job_id)
    IN  IF Len(ids1) > JOBS_SIZE_LIMIT
        THEN [ids |-> Tail(ids1), jobs |-> (jobs \ {Head(ids1)}) \cup {job_id}]
        ELSE [ids |-> ids1, jobs |-> jobs \cup {job_id}]

\* the input checks of crawl_all_start
StartError(start_block, max_pages) ==
    start_block < 0 \/ (max_pages # None /\ Val(max_pages) < 1)

crawl_all_start(start_block, max_pages) ==
    /\ JOB_IDS[Len(JOB_IDS)] < MaxJobs
    /\ LET job_id == JOB_IDS[Len(JOB_IDS)] + 1
           st == StoreAfterCreate(JOB_IDS, JOBS, job_id)
       IN  IF StartError(start_block, max_pages)
           THEN UNCHANGED storeVars
           ELSE JOB_IDS' = st.ids /\ JOBS' = st.jobs
    /\ UNCHANGED <<crawlVars, getVars, pub, lockVars>>

(***************************************************************************)
(* The publish block of run_job, statement by statement, for the threads   *)
(* of several jobs that finish at the same time.  The block takes no lock. *)
(***************************************************************************)
Publisher(pc, result_id, oldest_rid) ==
    [pc |-> pc, result_id |-> result_id, oldest_rid |-> oldest_rid]

\* result_id = str(uuid.uuid4()); RESULTS_CACHE[result_id] = {...}
PubPut(w) ==
    /\ pub[w].pc = "put"
    /\ uuids' = uuids + 1
    /\ RESULTS_CACHE' = CachePut(RESULTS_CACHE, uuids + 1, ResultOf(job, chain_tip))
    /\ pub' = [pub EXCEPT ![w] = Publisher("append", uuids + 1, 0)]
    /\ UNCHANGED <<ledger, chain_tip, job, threads, RESULT_IDS, nStops, faults,
                   fatals, page_requests, getVars, storeVars, lockVars>>

\* RESULT_IDS.append(result_id)
PubAppend(w) ==
    /\ pub[w].pc = "append"
    /\ RESULT_IDS' = Append(RESULT_IDS, pub[w].result_id)
    /\ pub' = [pub EXCEPT ![w].pc = "check"]
    /\ UNCHANGED <<ledger, chain_tip, job, threads, RESULTS_CACHE, uuids, nStops,
                   faults, fatals, page_requests, getVars, storeVars, lockVars>>

\* if len(RESULT_IDS) > CACHE_SIZE_LIMIT
PubCheck(w) ==
    /\ pub[w].pc = "check"
    /\ pub' = [pub EXCEPT ![w].pc = IF Len(RESULT_IDS) > CACHE_SIZE_LIMIT
                                    THEN "pop" ELSE "done"]
    /\ UNCHANGED <<ledger, chain_tip, job, threads, RESULTS_CACHE, RESULT_IDS, uuids,
                   nStops, faults, fatals, page_requests, getVars, storeVars, lockVars>>

\* oldest_rid = RESULT_IDS.pop(0)
PubPop(w) ==
    /\ pub[w].pc = "pop"
    /\ RESULT_IDS' = Tail(RESULT_IDS)
    /\ pub' = [pub EXCEPT ![w] = Publisher("del", pub[w].result_id, Head(RESULT_IDS))]
    /\ UNCHANGED <<ledger, chain_tip, job, threads, RESULTS_CACHE, uuids, nStops,
                   faults, fatals, page_requests, getVars, storeVars, lockVars>>

\* if oldest_rid in RESULTS_CACHE: del RESULTS_CACHE[oldest_rid]
PubDel(w) ==
    /\ pub[w].pc = "del"
    /\ RESULTS_CACHE' = IF pub[w].oldest_rid \in DOMAIN RESULTS_CACHE
                        THEN CacheDel(RESULTS_CACHE, pub[w].oldest_rid)
                        ELSE RESULTS_CACHE
    /\ pub' = [pub EXCEPT ![w].pc = "done"]
    /\ UNCHANGED <<ledger, chain_tip, job, threads, RESULT_IDS, uuids, nStops,
                   faults, fatals, page_requests, getVars, storeVars, lockVars>>

(***************************************************************************)
(* One call of EtherscanClient._get, seen alone.                           *)
(***************************************************************************)
SampleAnswers == { TxlistAnswer(<<Rec(1, 0, 0)>>, 0, 0, 1, 2),
                   TxlistAnswer(<<>>, 0, 0, 1, 2) }

GetCall ==
    /\ g_ret = None
    /\ g_ret' = Some(Query(g_outs, g_answer))
    /\ UNCHANGED <<g_outs, g_answer, crawlVars, storeVars, pub, lockVars>>

(***************************************************************************)
(* Specifications.                                                         *)
(***************************************************************************)
StartBlocks == {0, 1}
Tips == {0, MaxTip}
Budgets == {None} \cup { Some(n) : n \in 1..MaxBudget }

InitCrawl(led, tip, start_block, page_size, max_pages_int) ==
    /\ ledger = led
    /\ chain_tip = tip
    /\ job = NewJob(start_block, page_size, max_pages_int)
    /\ threads = <<NewThread>>
    /\ RESULTS_CACHE = <<>>
    /\ RESULT_IDS = <<>>
    /\ uuids = 0
    /\ nStops = 0
    /\ faults = 0
    /\ fatals = 0
    /\ page_requests = 0
    /\ JOB_IDS = <<1>>
    /\ JOBS = {1}
    /\ lockfree = {}

Init ==
    /\ \E led \in Ledgers, tip \in Tips, start_block \in StartBlocks,
          page_size \in PageSizes, max_pages_int \in Budgets :
         InitCrawl(led, tip, start_block, page_size, max_pages_int)
    /\ pub = <<>>
    /\ readers = <<>>
    /\ g_outs = Healthy
    /\ g_answer = TxlistAnswer(<<>>, 0, 0, 1, 2)
    /\ g_ret = None

Next ==
    \/ \E t \in DOMAIN threads : Start(t)
    \/ \E t \in DOMAIN threads : Tip(t)
    \/ \E t \in DOMAIN threads : Loop(t)
    \/ \E t \in DOMAIN threads : FetchPre(t)
    \/ \E t \in DOMAIN threads : FetchPage(t)
    \/ \E t \in DOMAIN threads : Fetched(t)
    \/ \E t \in DOMAIN threads : Progress(t)
    \/ \E t \in DOMAIN threads : Finish(t)
    \/ \E t \in DOMAIN threads : MarkDone(t)
    \/ crawl_stop
    \/ crawl_resume

Spec == Init /\ [][Next]_vars

\* a step of some run_job thread
WorkerNext ==
    \E t \in DOMAIN threads :
        \/ Start(t) \/ Tip(t) \/ Loop(t) \/ FetchPre(t) \/ FetchPage(t)
        \/ Fetched(t) \/ Progress(t) \/ Finish(t) \/ MarkDone(t)

\* one crawl, over a ledger that makes the window halve, with and without a
\* page budget
FairInit ==
    /\ \E max_pages_int \in {None, Some(MaxBudget)} :
         InitCrawl(LedgerFrom(1, FALSE, 0, MaxTip), MaxTip, 0, 2, max_pages_int)
    /\ pub = <<>>
    /\ readers = <<>>
    /\ g_outs = Healthy
    /\ g_answer = TxlistAnswer(<<>>, 0, 0, 1, 2)
    /\ g_ret = None

\* the crawl with threads that are scheduled and upstream calls that return
\* or raise: a thread that can take a step eventually takes one
FairSpec == FairInit /\ [][Next]_vars /\ WF_vars(WorkerNext)

\* the crawl of job 1 while other jobs are created
NextStore ==
    \/ Next
    \/ \E start_block \in {-1, 0}, max_pages \in {None, Some(0), Some(1)} :
           crawl_all_start(start_block, max_pages)

SpecStore == FairInit /\ [][NextStore]_vars

\* threads of MaxPublishers jobs at the publish block, the cache empty
InitCache ==
    /\ InitCrawl(<<>>, 0, 0, 2, None)
    /\ pub = [w \in 1..MaxPublishers |-> Publisher("put", 0, 0)]
    /\ readers = <<>>
    /\ g_outs = Healthy
    /\ g_answer = TxlistAnswer(<<>>, 0, 0, 1, 2)
    /\ g_ret = None

NextCache ==
    \/ \E w \in DOMAIN pub : PubPut(w)
    \/ \E w \in DOMAIN pub : PubAppend(w)
    \/ \E w \in DOMAIN pub : PubCheck(w)
    \/ \E w \in DOMAIN pub : PubPop(w)
    \/ \E w \in DOMAIN pub : PubDel(w)

\* the publish blocks of threads that finish concurrently, in any interleaving
SpecCache == InitCache /\ [][NextCache]_vars

\* publisher w is the run_job thread of job w, started when the job was
\* created; it runs on whether or not the store still tracks the job
JobCreated(w) == w <= JOB_IDS[Len(JOB_IDS)]

NextEvict ==
    \/ \E w \in DOMAIN pub : JobCreated(w) /\ PubPut(w)
    \/ \E w \in DOMAIN pub : PubAppend(w)
    \/ \E w \in DOMAIN pub : PubCheck(w)
    \/ \E w \in DOMAIN pub : PubPop(w)
    \/ \E w \in DOMAIN pub : PubDel(w)
    \/ \E start_block \in {-1, 0}, max_pages \in {None, Some(0), Some(1)} :
           crawl_all_start(start_block, max_pages)

\* jobs created and evicted while the threads of earlier jobs publish
SpecEvict == InitCache /\ [][NextEvict]_vars

\* one crawl, and the threads of CACHE_SIZE_LIMIT other jobs at the publish
\* block
InitPublish ==
    /\ \E start_block \in StartBlocks :
         InitCrawl(LedgerFrom(1, FALSE, 0, 0), 0, start_block, 2, None)
    /\ pub = [w \in 1..CACHE_SIZE_LIMIT |-> Publisher("put", 0, 0)]
    /\ readers = <<>>
    /\ g_outs = Healthy
    /\ g_answer = TxlistAnswer(<<>>, 0, 0, 1, 2)
    /\ g_ret = None

\* the crawl of job 1 while the threads of other jobs publish their Results
SpecPublish == InitPublish /\ [][Next \/ NextCache]_vars

(***************************************************************************)
(* The two-window crawl: a range of two maximum windows, three records in  *)
(* the first and two in the second, fewer than the query cap in each.      *)
(***************************************************************************)
ScenarioMid == ScenarioStart + MAX_WINDOW_BLOCKS
ScenarioTip == ScenarioStart + 2 * MAX_WINDOW_BLOCKS - 1

ScenarioLedger(c, d, e) ==
    <<Rec(1, ScenarioStart, 1), Rec(2, ScenarioStart, 0), Rec(3, c, 0),
      Rec(4, d, 0), Rec(5, e, 0)>>

\* the records at the ends of the two windows, or inside them
ScenarioLedgers ==
    { ScenarioLedger(c, d, e) :
          c \in {ScenarioStart, ScenarioMid - 1},
          d \in {ScenarioMid},
          e \in {ScenarioMid, ScenarioTip} }
    \cup { ScenarioLedger(ScenarioMid - 1, ScenarioTip, ScenarioTip) }

InitScenario ==
    /\ \E led \in ScenarioLedgers, page_size \in PageSizes :
         InitCrawl(led, ScenarioTip, ScenarioStart, page_size, None)
    /\ pub = <<>>
    /\ readers = <<>>
    /\ g_outs = Healthy
    /\ g_answer = TxlistAnswer(<<>>, 0, 0, 1, 2)
    /\ g_ret = None

\* the two-window crawl, its threads scheduled as in FairSpec
SpecScenario == InitScenario /\ [][Next]_vars /\ WF_vars(WorkerNext)

\* one crawl and one call of each partial-result endpoint
InitLock ==
    /\ \E page_size \in PageSizes :
         InitCrawl(LedgerFrom(2, FALSE, 0, MaxTip), MaxTip, 0, page_size, None)
    /\ pub = <<>>
    /\ readers = [r \in 1..MaxReaders |-> Reader("lookup", 0, FALSE)]
    /\ g_outs = Healthy
    /\ g_answer = TxlistAnswer(<<>>, 0, 0, 1, 2)
    /\ g_ret = None

NextLock ==
    \/ \E t \in DOMAIN threads : Start(t)
    \/ \E t \in DOMAIN threads : Tip(t)
    \/ \E t \in DOMAIN threads : Loop(t)
    \/ \E t \in DOMAIN threads : FetchPre(t)
    \/ \E t \in DOMAIN threads : FetchPage(t)
    \/ \E t \in DOMAIN threads : FetchedExit(t)
    \/ \E t \in DOMAIN threads : MergeTx(t)
    \/ \E t \in DOMAIN threads : AppendSegment(t)
    \/ \E t \in DOMAIN threads : Progress(t)
    \/ \E t \in DOMAIN threads : Finish(t)
    \/ \E t \in DOMAIN threads : MarkDone(t)
    \/ crawl_stop
    \/ crawl_resume
    \/ \E r \in DOMAIN readers : PartialLookup(r)
    \/ \E r \in DOMAIN readers : PartialRead(r)

\* the crawl with its merge followed statement by statement, and the
\* partial-result endpoints called at any moment
SpecLock == InitLock /\ [][NextLock]_vars

InitGet ==
    /\ InitCrawl(<<>>, 0, 0, 2, None)
    /\ pub = <<>>
    /\ readers = <<>>
    /\ g_outs \in [1..AttemptsOffered -> AttemptKinds]
    /\ g_answer \in SampleAnswers
    /\ g_ret = None

NextGet == GetCall

SpecGet == InitGet /\ [][NextGet]_vars

(***************************************************************************)
(* Properties.                                                             *)
(***************************************************************************)
Results == { RESULTS_CACHE[r] : r \in DOMAIN RESULTS_CACHE }

Hashes(s) == { s[i].hash : i \in 1..Len(s) }

NoRepeatedHash(s) == \A a, b \in 1..Len(s) : s[a].hash = s[b].hash => a = b

\* the hashes the upstream returned for the completed segments: of each
\* segment's window, the first tx_count records it serves
SegmentHashes(segs) ==
    UNION { { Served(ledger, segs[n].start, segs[n].end)[i].hash :
                  i \in 1..segs[n].tx_count } : n \in 1..Len(segs) }

RECURSIVE SumTxCount(_)
SumTxCount(segs) ==
    IF segs = <<>> THEN 0 ELSE Head(segs).tx_count + SumTxCount(Tail(segs))

\* C1: a hash is in the accumulator of the job at most once, in every state;
\* a published Result holds each hash at most once, and holds exactly the
\* hashes the upstream returned for its completed segments.
C1_OneRecordPerHash ==
    /\ NoRepeatedHash(DictValues(job.seen_hashes))
    /\ \A i \in 1..Len(job.seen_hashes) :
           job.seen_hashes[i].k = job.seen_hashes[i].v.hash
    /\ \A R \in Results :
           /\ NoRepeatedHash(R.eth_txs)
           /\ Hashes(R.eth_txs) = SegmentHashes(R.segments)

\* a Result published by a resumed run whose segments returned some hash
\* more than once
C1_Witness ==
    \E R \in Results :
        /\ SumTxCount(R.segments) > Len(R.eth_txs)
        /\ Len(threads) > 1

\* C2: the records of every published Result are in ascending blockNumber
\* order, those of one block in ascending timeStamp order.
C2_ResultSorted ==
    \A R \in Results : \A i \in 1..(Len(R.eth_txs) - 1) :
        LET a == R.eth_txs[i]
            b == R.eth_txs[i + 1]
        IN  \/ a.blockNumber < b.blockNumber
            \/ a.blockNumber = b.blockNumber /\ a.timeStamp <= b.timeStamp

\* a Result of a resumed run, after a cap-hit retry, with two records of one
\* block, whose accumulator was not in sorted order
C2_Witness ==
    \E R \in Results :
        /\ R.eth_txs # DictValues(job.seen_hashes)
        /\ \E i \in 1..(Len(R.eth_txs) - 1) :
               R.eth_txs[i].blockNumber = R.eth_txs[i + 1].blockNumber
        /\ Len(threads) > 1
        /\ job.high_activity

SegmentBlocks(segs) == UNION { segs[n].start .. segs[n].end : n \in 1..Len(segs) }

\* C3: in every published Result the segments' block ranges are pairwise
\* disjoint, their union is [coverage_start, coverage_end], and with at least
\* one segment coverage_start is the first segment's start and coverage_end
\* the last segment's end.
C3_SegmentsTileCoverage ==
    \A R \in Results :
        /\ \A m, n \in 1..Len(R.segments) :
               m # n => (R.segments[m].start .. R.segments[m].end)
                          \cap (R.segments[n].start .. R.segments[n].end) = {}
        /\ SegmentBlocks(R.segments) = R.coverage_start .. R.coverage_end
        /\ R.segments # <<>> =>
               /\ R.coverage_start = R.segments[1].start
               /\ R.coverage_end = R.segments[Len(R.segments)].end

(***************************************************************************)
(* The crawl run end-to-end, never stopped, on the same ledger and tip: the *)
(* steps of run_job applied one after the other, every query answered by   *)
(* the upstream.                                                           *)
(***************************************************************************)
UninterruptedStep(j, l) ==
    CASE l.pc = "start" -> run_start(j, l)
      [] l.pc = "tip" -> run_tip(j, l, Query(Healthy, BlockNumberAnswer(chain_tip)))
      [] l.pc = "loop" -> run_loop(j, l)
      [] l.pc = "f_pre" -> fetch_pre(j, l)
      [] l.pc = "f_wait" ->
            fetch_page(j, l, Query(Healthy, TxlistAnswer(ledger, l.seg_start, l.seg_end,
                                                         l.current_page, j.page_size)))
      [] l.pc = "fetched" -> run_fetched(j, l)
      [] l.pc = "progress" -> run_progress(j, l)

RECURSIVE UninterruptedRun(_, _)
UninterruptedRun(j, l) ==
    IF l.pc \in {"finish", "returned"} THEN St(j, l)
    ELSE LET st == UninterruptedStep(j, l) IN UninterruptedRun(st.j, st.l)

Uninterrupted ==
    UninterruptedRun(NewJob(job.start_block, job.page_size, job.max_pages_int), NewThread)

AllReturned == \A t \in DOMAIN threads : threads[t].pc = "returned"

\* C4: with every query answered by the upstream, a crawl stopped and
\* resumed any number of times publishes the Result of the uninterrupted
\* crawl: when it has ended it has published one if the uninterrupted crawl
\* does, and the records of a Result it publishes are those of the
\* uninterrupted crawl's, in the same order.
C4_ResumeSameResult ==
    faults = 0 =>
        /\ \A R \in Results :
               /\ Uninterrupted.l.pc = "finish"
               /\ R.eth_txs = FinalRecords(Uninterrupted.j)
        /\ (AllReturned /\ job.done /\ Uninterrupted.l.pc = "finish") => job.rid # None

\* the records the upstream holds in a window, served or not
Held(start_blk, end_blk) == Len(InWindow(ledger, start_blk, end_blk))

\* C5: with every query answered by the upstream, a window fetch over a
\* window that holds more than MAX_RECORDS_PER_QUERY records never returns
\* with cap_hit, truncated and paused_hit all false, and no such window is
\* in the segment list.
C5_CapAlwaysSignalled ==
    faults = 0 =>
        /\ \A t \in DOMAIN threads :
               LET l == threads[t]
               IN  (l.pc = "fetched" /\ Held(l.seg_start, l.seg_end) > MAX_RECORDS_PER_QUERY)
                       => (l.cap_hit \/ l.truncated \/ l.paused_hit)
        /\ \A n \in 1..Len(job.segments) :
               Held(job.segments[n].start, job.segments[n].end) <= MAX_RECORDS_PER_QUERY

\* a crawl nobody stops, with no page budget, every query answered by the
\* upstream, over a range of at least one block
PlainCrawl ==
    /\ faults = 0
    /\ nStops = 0
    /\ job.max_pages_int = None
    /\ job.start_block <= chain_tip

\* the upstream returns MAX_RECORDS_PER_QUERY records for every window of
\* the range, a 1-block window included
AlwaysAtCap ==
    \A b \in job.start_block..chain_tip : Held(b, b) >= MAX_RECORDS_PER_QUERY

\* C7: when the upstream returns MAX_RECORDS_PER_QUERY records for every
\* window, a 1-block window included, the run completes no segment and
\* publishes no Result, and it ends with the job done, not running, and the
\* cap-unresolvable error.
C7_EndsCapUnresolvable ==
    (PlainCrawl /\ AlwaysAtCap) =>
        /\ job.segments = <<>>
        /\ RESULTS_CACHE = <<>>
        /\ job.rid = None
        /\ AllReturned =>
               /\ job.done
               /\ ~job.running
               /\ job.error = "Even a window of min block(s) exceeds cap"

\* T is the threshold of the upstream: a window of the range of at least T
\* blocks returns exactly MAX_RECORDS_PER_QUERY records, a smaller one fewer
IsThreshold(T) ==
    \A s \in job.start_block..chain_tip : \A e \in s..chain_tip :
        IF e - s + 1 >= T
        THEN Len(Served(ledger, s, e)) = MAX_RECORDS_PER_QUERY
        ELSE Len(Served(ledger, s, e)) < MAX_RECORDS_PER_QUERY

RECURSIVE Pow2(_)
Pow2(n) == IF n = 0 THEN 1 ELSE 2 * Pow2(n - 1)

\* ceil(log2(MAX_WINDOW_BLOCKS / T)): the least k with T * 2^k >= MAX_WINDOW_BLOCKS
RECURSIVE CeilLog2From(_, _)
CeilLog2From(T, k) ==
    IF T * Pow2(k) >= MAX_WINDOW_BLOCKS THEN k ELSE CeilLog2From(T, k + 1)

\* C8: with a threshold T >= 2 and a range of at least MAX_WINDOW_BLOCKS
\* blocks, the first segment the crawler completes is of at most T blocks
\* and is reached from MAX_WINDOW_BLOCKS by at most
\* ceil(log2(MAX_WINDOW_BLOCKS / T)) + 1 halvings.
C8_ShrinkConverges ==
    \A T \in 2..MAX_WINDOW_BLOCKS :
        (/\ PlainCrawl
         /\ chain_tip - job.start_block + 1 >= MAX_WINDOW_BLOCKS
         /\ IsThreshold(T)
         /\ job.segments # <<>>) =>
            LET size == job.segments[1].end - job.segments[1].start + 1
            IN  /\ size <= T
                /\ size * Pow2(CeilLog2From(T, 0) + 1) >= MAX_WINDOW_BLOCKS

(***************************************************************************)
(* Properties of one _get call (SpecGet).                                  *)
(***************************************************************************)
GetResult == Val(g_ret)

\* the conditions the retry policy names as transient
TransientConditions == TransientKinds \cup {"rate_limit"}

\* C6: a call whose 3 attempts all end in a transient condition (timeout,
\* connection failure, HTTP 429, unparseable body, another exception, or a
\* rate-limit response) raises; what a call returns is never a rate-limit
\* response, which txlist_page would turn into an empty page.
C6_TransientNeverReturned ==
    g_ret # None =>
        /\ (\A a \in 1..3 : g_outs[a] \in TransientConditions) => GetResult.raised
        /\ ~GetResult.raised => ~GetResult.value.rate_limited

\* C9: when the first 2 attempts fail transiently and the 3rd is answered,
\* the call returns that answer after exactly 3 requests and exactly the
\* delays 1s, 2s, in that order.
C9_ThirdAttemptSucceeds ==
    (/\ g_ret # None
     /\ g_outs[1] \in TransientConditions
     /\ g_outs[2] \in TransientConditions
     /\ g_outs[3] = "answer") =>
        /\ ~GetResult.raised
        /\ GetResult.value = g_answer
        /\ GetResult.requests = 3
        /\ GetResult.slept = <<1, 2>>

\* a call that timed out, then got HTTP 429, then a page of records
C9_Witness ==
    /\ g_ret # None
    /\ g_outs[1] = "timeout" /\ g_outs[2] = "http429" /\ g_outs[3] = "answer"
    /\ g_answer.status = "1"
    /\ GetResult.value.result # <<>>

\* C10: when the first 3 attempts all end in HTTP 429, the call raises after
\* exactly 3 requests and returns nothing.
C10_Http429Exhausts ==
    (g_ret # None /\ \A a \in 1..3 : g_outs[a] = "http429") =>
        /\ GetResult.raised
        /\ GetResult.requests = 3

\* a call answered HTTP 429 three times, which slept twice in between
C10_Witness ==
    /\ g_ret # None
    /\ \A a \in 1..3 : g_outs[a] = "http429"
    /\ Len(GetResult.slept) = 2

\* C27: an attempt that ends in an HTTP error status other than 429 makes
\* the call raise at once: that request is the last one of the call, and no
\* delay is slept after it.
C27_HttpErrorRaisesAtOnce ==
    g_ret # None =>
        \A a \in 1..max_attempts :
            (g_outs[a] = "http_error" /\ GetResult.requests >= a) =>
                /\ GetResult.raised
                /\ GetResult.requests = a
                /\ Len(GetResult.slept) = a - 1

\* a call that timed out, slept 1s, then got an HTTP error status and raised
\* although a third attempt would have been answered
C27_Witness ==
    /\ g_ret # None
    /\ g_outs[1] = "timeout" /\ g_outs[2] = "http_error" /\ g_outs[3] = "answer"
    /\ GetResult.raised
    /\ GetResult.requests = 2
    /\ GetResult.slept = <<1>>

\* an answer with status "0" that is not a rate-limit signal
NotOk(a) == g_outs[a] = "answer" /\ g_answer.status = "0" /\ ~g_answer.rate_limited

\* C28: whatever the attempts end in, a call issues at most 3 requests; it
\* sleeps one delay after each request but the last, the k-th delay being
\* the k-th of 1s, 2s, 4s; and a not-OK answer that is not a rate-limit
\* signal is followed by another attempt unless it is the answer to the 3rd
\* attempt, which is returned.
C28_RetryBudgetAndDelays ==
    g_ret # None =>
        /\ GetResult.requests \in 1..3
        /\ GetResult.slept = SubSeq(<<1, 2, 4>>, 1, GetResult.requests - 1)
        /\ \A a \in 1..3 :
               (NotOk(a) /\ GetResult.requests >= a) =>
                   IF a < 3
                   THEN GetResult.requests > a
                   ELSE /\ ~GetResult.raised
                        /\ GetResult.value = g_answer
                        /\ GetResult.requests = 3

\* a call answered not-OK three times: three requests, delays 1s and 2s,
\* the third answer returned although a fourth attempt was on offer
C28_Witness ==
    /\ g_ret # None
    /\ \A a \in 1..AttemptsOffered : NotOk(a)
    /\ GetResult.requests = 3
    /\ GetResult.slept = <<1, 2>>
    /\ ~GetResult.raised

(***************************************************************************)
(* Properties of the run_job threads of one job.                           *)
(***************************************************************************)
Active == { t \in DOMAIN threads : threads[t].pc # "returned" }

\* C11: at most one run_job thread of the job is active at any time: a
\* thread started by crawl_resume finds every earlier thread returned, its
\* last write to the job made.
C11_OneActiveRun ==
    /\ Cardinality(Active) <= 1
    /\ \A t \in DOMAIN threads : t < Len(threads) => threads[t].pc = "returned"

\* a resumed thread waiting for a page while the first thread has returned
C11_Witness ==
    /\ Len(threads) > 1
    /\ threads[1].pc = "returned"
    /\ threads[2].pc = "f_wait"
    /\ job.running

ResumeErrors == {"Job is not paused", "Job is already running", "Job is already done"}

\* C12: on a job that is not paused, or is running, or is done, crawl_resume
\* answers with an error, starts no thread and leaves the job dict as it was.
C12_ResumeRejected ==
    (~job.paused \/ job.running \/ job.done) =>
        LET r == crawl_resume_call(job)
        IN  /\ r.reply \in ResumeErrors
            /\ ~r.launched
            /\ r.job = job

\* a running job with a stop pending, and a done job with its error set
C12_Witness ==
    \/ job.running /\ job.stop_requested /\ job.segments # <<>>
    \/ job.done /\ job.error # "None" /\ job.stop_requested

\* the block after the last completed segment, start_block when there is none
AfterLastSegment(j) ==
    IF j.segments # <<>> THEN j.segments[Len(j.segments)].end + 1 ELSE j.start_block

\* C13: a thread that pauses, at the top of the loop or inside a window
\* fetch, saves the window size it was using; nothing changes the saved
\* window size or coverage_end until the resumed thread restores them; and
\* the resumed thread enters its loop at coverage_end + 1, the block after
\* the last completed segment (start_block when there is none), with the
\* saved window size, and its first window starts there.
C13_ResumeCursor ==
    [][ \A t \in DOMAIN threads :
          /\ (threads[t].pc \in {"loop", "fetched"} /\ ~job.paused /\ job'.paused)
                 => job'.window_blocks = threads[t].window_blocks
          /\ (job.paused \/ (t > 1 /\ threads[t].pc = "start"))
                 => /\ job'.window_blocks = job.window_blocks
                    /\ job'.coverage_end = job.coverage_end
                    /\ job'.segments = job.segments
          /\ (t > 1 /\ threads[t].pc = "tip" /\ threads'[t].pc = "loop")
                 => /\ threads'[t].seg_start = job.coverage_end + 1
                    /\ threads'[t].seg_start = AfterLastSegment(job)
                    /\ threads'[t].window_blocks = job.window_blocks
                    /\ job' = [job EXCEPT !.latest_block = job'.latest_block]
          /\ (threads[t].pc = "loop" /\ threads'[t].pc = "f_pre")
                 => /\ threads'[t].seg_start = threads[t].seg_start
                    /\ threads'[t].window_blocks = threads[t].window_blocks
                    /\ threads'[t].seg_end =
                           Min(threads[t].seg_start + threads[t].window_blocks - 1,
                               threads[t].latest_block)
      ]_vars

\* a resumed thread fetching its first window after a pause taken inside a
\* window fetch: segments were completed and the window had been halved
C13_Witness ==
    /\ Len(threads) > 1
    /\ threads[2].pc = "f_wait"
    /\ threads[2].current_page = 1
    /\ job.segments # <<>>
    /\ threads[2].seg_start = AfterLastSegment(job)
    /\ threads[2].window_blocks < MAX_WINDOW_BLOCKS
    /\ job.segments_done > Len(job.segments)

C16_BudgetStopNotError ==
    [][ \A t \in DOMAIN threads :
          /\ (threads[t].pc = "fetched" /\ threads[t].truncated
                   /\ threads'[t] # threads[t])
                 => /\ job'.done /\ ~job'.running
                    /\ job'.error = "None"
                    /\ threads'[t].pc = "finish"
          /\ (threads[t].pc = "finish" /\ threads'[t] # threads[t])
                 => /\ uuids' \in DOMAIN RESULTS_CACHE'
                    /\ Hashes(RESULTS_CACHE'[uuids'].eth_txs)
                           = Hashes(DictValues(job.seen_hashes))
      ]_vars

\* C17: once a query of the run has raised, at the tip query or at a page
\* fetch, the run has ended: the job is done and not running, its error
\* field is set, it has no result id, and no Result was published.
C17_FatalTransportEndsJob ==
    fatals > 0 =>
        /\ AllReturned
        /\ job.done /\ ~job.running /\ ~job.paused
        /\ job.error = "Error"
        /\ job.rid = None
        /\ RESULTS_CACHE = <<>>
        /\ RESULT_IDS = <<>>

\* a page query that raised in a resumed run, after segments were completed
C17_Witness ==
    /\ fatals > 0
    /\ job.latest_block # None
    /\ job.segments # <<>>
    /\ Len(threads) > 1
    /\ page_requests > Len(job.segments)

\* C18: with a page budget, the page requests issued over the whole crawl,
\* cap-hit retries and resumed runs included, never exceed it, and a window
\* fetch that has set truncated issues no request.
C18_BudgetBoundsRequests ==
    /\ [](job.max_pages_int # None => page_requests <= Val(job.max_pages_int))
    /\ [][ \A t \in DOMAIN threads :
              (threads[t].truncated /\ threads'[t] # threads[t])
                  => page_requests' = page_requests ]_vars

\* a resumed run whose fetch is truncated with the whole budget spent
C18_Witness ==
    /\ job.max_pages_int # None
    /\ page_requests = Val(job.max_pages_int)
    /\ Len(threads) > 1
    /\ \E t \in DOMAIN threads : threads[t].pc = "fetched" /\ threads[t].truncated

(***************************************************************************)
(* Properties of the job store (SpecStore).                                *)
(***************************************************************************)
Ids(seq) == { seq[i] : i \in 1..Len(seq) }

\* C19: the store tracks at most JOBS_SIZE_LIMIT jobs, those JOB_IDS lists;
\* a step removes a job only when it creates one with the store full, and
\* then removes exactly the oldest-created job still tracked.
C19_JobStoreBounded ==
    /\ [](Cardinality(JOBS) <= JOBS_SIZE_LIMIT /\ JOBS = Ids(JOB_IDS)
             /\ Len(JOB_IDS) = Cardinality(JOBS))
    /\ [][ JOBS' # JOBS =>
              /\ \E n \in JOBS' \ JOBS : \A o \in JOBS : o < n
              /\ Cardinality(JOBS' \ JOBS) = 1
              /\ IF Cardinality(JOBS) < JOBS_SIZE_LIMIT
                 THEN JOBS \subseteq JOBS'
                 ELSE \E o \in JOBS : /\ JOBS \ JOBS' = {o}
                                       /\ \A k \in JOBS : o <= k ]_vars

\* the store after two evictions, job 1 evicted while its thread is running
C19_Witness ==
    /\ JOBS = {MaxJobs - 1, MaxJobs}
    /\ job.running
    /\ 1 \notin JOBS


\* the Results published so far are numbered in the order of their publication
OldestPublished == CHOOSE r \in DOMAIN RESULTS_CACHE :
                       \A q \in DOMAIN RESULTS_CACHE : r <= q

\* C20: in every reachable state, under any interleaving of the threads that
\* finish concurrently, the Result cache holds at most CACHE_SIZE_LIMIT
\* Results, and a Result is removed only when the bound is exceeded, and it
\* is the oldest-published one.
C20_ResultCacheBounded ==
    /\ [](Cardinality(DOMAIN RESULTS_CACHE) <= CACHE_SIZE_LIMIT)
    /\ [][(DOMAIN RESULTS_CACHE) \ (DOMAIN RESULTS_CACHE') # {}
            => /\ Cardinality(DOMAIN RESULTS_CACHE) > CACHE_SIZE_LIMIT
               /\ (DOMAIN RESULTS_CACHE) \ (DOMAIN RESULTS_CACHE')
                     = {OldestPublished}]_vars

(***************************************************************************)
(* Properties of the store and the cache together (SpecEvict).             *)
(***************************************************************************)
\* the Results published after Result r
NewerPublished(r, published) == { q \in 1..published : q > r }

\* C21: a step that evicts a job from the store leaves the Result cache as
\* it was; a cached Result is never altered; and a Result leaves the cache
\* only once CACHE_SIZE_LIMIT newer Results have been published.
C21_EvictionKeepsResults ==
    /\ [][JOBS' # JOBS => RESULTS_CACHE' = RESULTS_CACHE]_vars
    /\ [][\A r \in (DOMAIN RESULTS_CACHE) \cap (DOMAIN RESULTS_CACHE') :
              RESULTS_CACHE'[r] = RESULTS_CACHE[r]]_vars
    /\ [][\A r \in (DOMAIN RESULTS_CACHE) \ (DOMAIN RESULTS_CACHE') :
              Cardinality(NewerPublished(r, uuids')) >= CACHE_SIZE_LIMIT]_vars

(***************************************************************************)
(* Properties of the lock discipline (SpecLock).                           *)
(***************************************************************************)
\* C22: no access to the accumulator or the segment list of a job is made
\* outside a JOBS_LOCK block, by the run_job thread or by a partial-result
\* endpoint, and no call of a partial-result endpoint reads the accumulator
\* while a run_job thread is inside its merge.
C22_LockDiscipline ==
    /\ lockfree = {}
    /\ \A r \in DOMAIN readers : ~readers[r].torn

(***************************************************************************)
(* Properties of the two-window crawl (SpecScenario).                      *)
(***************************************************************************)
\* nobody stopped the crawl and the transport answered every query
Undisturbed == nStops = 0 /\ faults = 0

Span(seg) == <<seg.start, seg.end>>

ScenarioSpans ==
    <<<<ScenarioStart, ScenarioMid - 1>>, <<ScenarioMid, ScenarioTip>>>>

\* C23: a crawl from ScenarioStart to a tip two maximum windows away, over
\* an upstream with 3 records in the first window and 2 in the second and no
\* cap hit, nobody stopping it, completes: it ends done without error, with
\* exactly the 2 segments of the two windows in that order, and publishes a
\* Result of 5 records, all different, with coverage from ScenarioStart to
\* the tip.
C23_TwoWindowCrawl ==
    /\ [](Undisturbed =>
             /\ \A n \in 1..Len(job.segments) :
                    n <= 2 /\ Span(job.segments[n]) = ScenarioSpans[n]
             /\ \A R \in Results :
                    /\ Len(R.segments) = 2
                    /\ Len(R.eth_txs) = 5
                    /\ Cardinality(Hashes(R.eth_txs)) = 5
                    /\ R.eth_total = 5
                    /\ R.coverage_start = ScenarioStart
                    /\ R.coverage_end = ScenarioTip
             /\ AllReturned =>
                    /\ job.done /\ ~job.running /\ job.error = "None"
                    /\ Len(job.segments) = 2
                    /\ job.segments[1].tx_count = 3
                    /\ job.segments[2].tx_count = 2
                    /\ job.rid # None /\ Val(job.rid) \in DOMAIN RESULTS_CACHE
                    /\ job.coverage_start = ScenarioStart
                    /\ job.coverage_end = ScenarioTip)
    /\ <>(~Undisturbed \/ AllReturned)

\* the crawl completed undisturbed, its Result published
C23_Witness ==
    /\ Undisturbed
    /\ AllReturned
    /\ chain_tip = ScenarioTip
    /\ job.rid # None
    /\ \E R \in Results : Len(R.eth_txs) = 5 /\ Len(R.segments) = 2

(***************************************************************************)
(* Properties of fetch_txlist_window.  A thread at "fetched" holds what    *)
(* the call returned.                                                      *)
(***************************************************************************)
FlagsSet(l) == Cardinality({ f \in {"cap_hit", "truncated", "paused_hit"} :
                               \/ f = "cap_hit" /\ l.cap_hit
                               \/ f = "truncated" /\ l.truncated
                               \/ f = "paused_hit" /\ l.paused_hit })

\* the step in which fetch_txlist_window of thread t returns
Returns(t) == threads[t].pc \in {"f_pre", "f_wait"} /\ threads'[t].pc = "fetched"

\* C24: every return of fetch_txlist_window has at most one of cap_hit,
\* truncated and paused_hit set; cap_unresolvable is set only together with
\* cap_hit and only for a window of at most MIN_WINDOW_BLOCKS blocks; and a
\* return with none of the three set follows a page shorter than page_size.
C24_ExitFlagsDisjoint ==
    /\ [](\A t \in DOMAIN threads :
             LET l == threads[t]
             IN  l.pc = "fetched" =>
                    /\ FlagsSet(l) <= 1
                    /\ l.cap_unresolvable =>
                           /\ l.cap_hit
                           /\ l.seg_end - l.seg_start + 1 <= MIN_WINDOW_BLOCKS)
    /\ [][\A t \in DOMAIN threads :
             (Returns(t) /\ FlagsSet(threads'[t]) = 0) =>
                 /\ threads[t].pc = "f_wait"
                 /\ Len(threads'[t].collected) - Len(threads[t].collected)
                        < job.page_size]_vars

\* a return with an unresolvable cap hit on a 1-block window, with a stop
\* requested after the last check of the fetch
C24_Witness ==
    \E t \in DOMAIN threads :
        /\ threads[t].pc = "fetched"
        /\ threads[t].cap_hit /\ threads[t].cap_unresolvable
        /\ threads[t].seg_end = threads[t].seg_start
        /\ job.stop_requested

\* the first n pages of the window of thread locals l, as the upstream
\* serves them
FirstPages(l, n) ==
    LET served == Served(ledger, l.seg_start, l.seg_end)
    IN  SubSeq(served, 1, Min(n * job.page_size, Len(served)))

\* C25: a page request is issued only from a check that found the stop flag
\* unset; a check before a request that finds it set returns paused_hit with
\* the records collected so far and issues no request; a check after a
\* response that finds it set returns paused_hit with the records of that
\* page appended to those of the earlier pages, and no further request.
C25_StopCheckedAroundPages ==
    /\ [](\A t \in DOMAIN threads :
             (faults = 0 /\ threads[t].pc \in {"f_pre", "f_wait"}) =>
                 threads[t].collected = FirstPages(threads[t], threads[t].current_page - 1))
    /\ [][\A t \in DOMAIN threads :
             LET l == threads[t]
                 m == threads'[t]
             IN  /\ page_requests' > page_requests => ~job.stop_requested
                 /\ (l.pc = "f_pre" /\ job.stop_requested /\ m # l) =>
                        /\ m.pc = "fetched" /\ m.paused_hit
                        /\ m.collected = l.collected
                        /\ page_requests' = page_requests
                 /\ (l.pc = "f_wait" /\ job.stop_requested /\ m # l
                        /\ fatals' = fatals) =>
                        /\ m.pc = "fetched" /\ m.paused_hit
                        /\ SubSeq(m.collected, 1, Len(l.collected)) = l.collected
                        /\ faults' = 0 => m.collected = FirstPages(l, l.current_page)
                        /\ page_requests' = page_requests
                 /\ (l.pc = "fetched" /\ m # l) => page_requests' = page_requests
          ]_vars

\* a fetch paused by a stop that arrived during its second page request,
\* returning the records of both pages
C25_Witness ==
    \E t \in DOMAIN threads :
        /\ threads[t].pc = "fetched"
        /\ threads[t].paused_hit
        /\ threads[t].current_page = 2
        /\ Len(threads[t].collected) > job.page_size
        /\ faults = 0

\* C26: a window fetch sets truncated only with a page budget and only when
\* the page requests issued so far over the whole crawl equal the budget.
C26_BudgetStopOnlyWhenSpent ==
    [][\A t \in DOMAIN threads :
          (threads'[t].truncated /\ ~threads[t].truncated) =>
              /\ job.max_pages_int # None
              /\ page_requests = Val(job.max_pages_int)]_vars

(***************************************************************************)
(* Properties of the window size and the cursor.                           *)
(***************************************************************************)
\* thread t holds the return of a window fetch with a resolvable cap hit
ResolvableCapHit(l) == l.pc = "fetched" /\ l.cap_hit /\ ~l.cap_unresolvable

\* C29: on a resolvable cap hit run_job halves window_blocks, floored at
\* MIN_WINDOW_BLOCKS, takes back the segment number it had counted for the
\* window, and goes back to the top of the loop with the same seg_start; the
\* job's segment list, accumulator, segments_done, seg_start and
\* coverage_end are as before (only the high-activity flag may be set).
C29_CapHitHalvesInPlace ==
    [][\A t \in DOMAIN threads :
          LET l == threads[t]
              m == threads'[t]
          IN  (ResolvableCapHit(l) /\ m # l) =>
                  /\ m.pc = "loop"
                  /\ m.window_blocks = Max(l.window_blocks \div 2, MIN_WINDOW_BLOCKS)
                  /\ m.window_blocks < l.window_blocks
                  /\ m.seg_start = l.seg_start
                  /\ m.segment_num = l.segment_num - 1
                  /\ m.collected = <<>>
                  /\ job'.segments = job.segments
                  /\ job'.seen_hashes = job.seen_hashes
                  /\ job'.segments_done = job.segments_done
                  /\ job'.coverage_end = job.coverage_end
                  /\ job'.seg_start = job.seg_start
                  /\ job' = [job EXCEPT !.high_activity = job'.high_activity,
                                        !.high_activity_reason = job'.high_activity_reason]
      ]_vars

\* a thread back at the top of the loop after two halvings, down to the
\* minimum window, with no segment completed and none counted
C29_Witness ==
    \E t \in DOMAIN threads :
        /\ threads[t].pc = "loop"
        /\ threads[t].window_blocks = MIN_WINDOW_BLOCKS
        /\ threads[t].segment_num = 0
        /\ threads[t].pages_total > 0
        /\ job.segments = <<>>
        /\ job.high_activity
        /\ nStops = 0

\* the segments are in increasing block order and contiguous from first
Contiguous(segs, first, tip) ==
    \A n \in 1..Len(segs) :
        /\ segs[n].start = (IF n = 1 THEN first ELSE segs[n - 1].end + 1)
        /\ segs[n].start <= segs[n].end
        /\ segs[n].end <= tip

\* the thread is in its loop, its cursor restored from the job
InLoop(l) == l.pc \in {"loop", "f_pre", "f_wait", "fetched", "progress"}

\* C30: in every state, across cap-hit retries and pause/resume cycles, the
\* segment list of the job starts at start_block, each later segment starts
\* at the end of the one before plus 1, and every segment has
\* start <= end <= tip; the same holds of the segments of every Result; and
\* no step decreases the cursor seg_start, in the job or in a thread, a
\* resumed thread starting at or after the block the job had reached.
C30_SegmentsContiguous ==
    /\ [](/\ Contiguous(job.segments, job.start_block, chain_tip)
          /\ \A R \in Results : Contiguous(R.segments, R.start_block, chain_tip)
          /\ \A t \in DOMAIN threads :
                 InLoop(threads[t]) =>
                     /\ threads[t].seg_start = AfterLastSegment(job)
                            \/ threads[t].pc = "progress"
                     /\ threads[t].seg_start >= job.start_block)
    /\ [][/\ job'.seg_start >= job.seg_start
           /\ \A t \in DOMAIN threads :
                  (InLoop(threads[t]) /\ InLoop(threads'[t])) =>
                      threads'[t].seg_start >= threads[t].seg_start
           /\ \A n \in 1..Len(job.segments) :
                  /\ n <= Len(job'.segments)
                  /\ job'.segments[n] = job.segments[n]]_vars

\* a resumed run, after a cap-hit retry, with segments of different sizes
C30_Witness ==
    /\ Len(threads) > 1
    /\ Len(job.segments) >= 2
    /\ job.segments[1].end - job.segments[1].start
           # job.segments[2].end - job.segments[2].start
    /\ job.high_activity
    /\ job.start_block > 0

\* the thread has computed a window and is in (or back from) its fetch
InFetch(l) == l.pc \in {"f_pre", "f_wait", "fetched"}

\* C31 as stated: every window handed to fetch_txlist_window has
\* seg_end - seg_start + 1 equal to window_blocks, and window_blocks is in
\* MIN_WINDOW_BLOCKS..MAX_WINDOW_BLOCKS after every halving and doubling.
C31_WindowSizeIsWindowBlocks ==
    \A t \in DOMAIN threads :
        LET l == threads[t]
        IN  /\ InFetch(l) => l.seg_end - l.seg_start + 1 = l.window_blocks
            /\ InLoop(l) => l.window_blocks \in MIN_WINDOW_BLOCKS..MAX_WINDOW_BLOCKS

\* C31 amended: every window handed to fetch_txlist_window has
\* seg_end - seg_start + 1 equal to the smaller of window_blocks and the
\* number of blocks from seg_start to the tip (so it equals window_blocks
\* unless the tip clips it, and is never empty), and window_blocks, in the
\* thread and in the job, is in MIN_WINDOW_BLOCKS..MAX_WINDOW_BLOCKS after
\* every halving and every doubling.
C31_WindowClippedAtTip ==
    /\ job.window_blocks \in MIN_WINDOW_BLOCKS..MAX_WINDOW_BLOCKS
    /\ \A t \in DOMAIN threads :
        LET l == threads[t]
        IN  /\ InFetch(l) =>
                /\ l.seg_end - l.seg_start + 1
                       = Min(l.window_blocks, l.latest_block - l.seg_start + 1)
                /\ l.seg_end - l.seg_start + 1 >= 1
                /\ l.seg_end <= chain_tip
            /\ InLoop(l) => l.window_blocks \in MIN_WINDOW_BLOCKS..MAX_WINDOW_BLOCKS

\* a window that the tip clips, after a halving and a doubling
C31_Witness ==
    \E t \in DOMAIN threads :
        /\ InFetch(threads[t])
        /\ threads[t].seg_end - threads[t].seg_start + 1 < threads[t].window_blocks
        /\ threads[t].window_blocks < MAX_WINDOW_BLOCKS
        /\ job.segments # <<>>
        /\ job.high_activity

(***************************************************************************)
(* Properties of the high-activity flag.                                   *)
(***************************************************************************)
\* this step halves some thread's window to HIGH_ACTIVITY_WINDOW or fewer
WindowShrinksSmall ==
    \E t \in DOMAIN threads :
        /\ ResolvableCapHit(threads[t])
        /\ threads'[t].pc = "loop"
        /\ threads[t].window_blocks > HIGH_ACTIVITY_WINDOW
        /\ threads'[t].window_blocks <= HIGH_ACTIVITY_WINDOW

\* this step is the progress block that follows the append of a segment
SegmentRecorded ==
    \E t \in DOMAIN threads :
        threads[t].pc = "progress" /\ threads'[t].pc = "loop"

\* C32: high_activity becomes true when the window shrinks to
\* HIGH_ACTIVITY_WINDOW blocks or fewer, or when the number of completed
\* segments exceeds HIGH_ACTIVITY_SEGMENTS, and in no other step; once set
\* it is never cleared and high_activity_reason is never overwritten.
C32_HighActivityFlag ==
    [][/\ (job'.high_activity /\ ~job.high_activity) =>
              \/ WindowShrinksSmall
              \/ SegmentRecorded /\ Len(job'.segments) > HIGH_ACTIVITY_SEGMENTS
       /\ WindowShrinksSmall => job'.high_activity
       /\ (SegmentRecorded /\ Len(job'.segments) > HIGH_ACTIVITY_SEGMENTS)
              => job'.high_activity
       /\ job.high_activity =>
              /\ job'.high_activity
              /\ job'.high_activity_reason = job.high_activity_reason
      ]_vars

(***************************************************************************)
(* Properties of the safety ceiling on segments.                           *)
(***************************************************************************)
\* thread t is at the top of a window iteration that will compute a window
AtWindowTop(l) ==
    l.pc = "loop" /\ l.seg_start <= l.latest_block /\ ~job.stop_requested

\* this step of thread t is the abort on the safety ceiling
SafetyAbort(t) ==
    /\ threads[t].pc = "loop"
    /\ threads'[t].pc = "returned"
    /\ job'.error = "Safety limit reached"

\* C33: a run aborts with the safety-ceiling error when, and only when, at
\* the top of a window iteration the length of the job's segment list
\* exceeds SAFETY_MAX_SEGMENTS; the abort sets done, clears running, records
\* the error naming the ceiling, and the run issues no page request after it.
C33_SafetyCeiling ==
    [][\A t \in DOMAIN threads :
          /\ (AtWindowTop(threads[t]) /\ threads'[t] # threads[t]) =>
                 (SafetyAbort(t) <=> Len(job.segments) > SAFETY_MAX_SEGMENTS)
          /\ (job'.error = "Safety limit reached" /\ job.error # job'.error) =>
                 /\ AtWindowTop(threads[t]) \/ threads[t].pc = "returned"
                 /\ job'.done /\ ~job'.running
                 /\ page_requests' = page_requests
          /\ (job.error = "Safety limit reached" /\ Len(threads') = Len(threads)) =>
                 page_requests' = page_requests
      ]_vars

(***************************************************************************)
(* Properties of the end of a run.                                         *)
(***************************************************************************)
\* what crawl_status reports of a job that is done without error
DoneClean(j) == j.done /\ j.error = "None"

\* C34 as stated: in every state where the job shows done and no error it
\* carries a rid and its coverage_end is the tip its run read, and at the
\* step that set done the Result of that rid was in RESULTS_CACHE, with
\* coverage_end equal to that tip.
C34_PublishedBeforeDone ==
    /\ [](DoneClean(job) =>
              /\ job.rid # None
              /\ job.latest_block # None
              /\ job.coverage_end = Val(job.latest_block)
              /\ Val(job.latest_block) = chain_tip)
    /\ [][(DoneClean(job') /\ ~DoneClean(job)) =>
              /\ job'.rid # None
              /\ Val(job'.rid) \in DOMAIN RESULTS_CACHE
              /\ Val(job'.rid) \in DOMAIN RESULTS_CACHE'
              /\ RESULTS_CACHE'[Val(job'.rid)].coverage_end = Val(job.latest_block)
      ]_vars

\* this step of thread t is its publish block
Publishes(t) == threads[t].pc = "finish" /\ threads'[t].pc = "mark_done"

\* C34 amended: on natural completion the Result is published before the
\* job is marked done: in every state where the job shows done and no error
\* it carries a rid and its coverage_end is the tip its run read; done was
\* set by a run that left its loop with seg_start > tip and had published
\* under that rid; and the publish block of a run leaves its Result in
\* RESULTS_CACHE with the job's segments and coverage_end equal to the tip
\* (the Result may be evicted again before done is set).
C34_PublishedThenDone ==
    /\ [](DoneClean(job) =>
              /\ job.rid # None
              /\ job.latest_block # None
              /\ job.coverage_end = Val(job.latest_block)
              /\ Val(job.latest_block) = chain_tip)
    /\ [][/\ (DoneClean(job') /\ ~DoneClean(job)) =>
               \E t \in DOMAIN threads :
                   /\ threads[t].pc = "mark_done"
                   /\ threads'[t].pc = "returned"
                   /\ threads[t].seg_start > threads[t].latest_block
                   /\ job'.rid = Some(threads[t].result_id)
                   /\ threads[t].result_id \in 1..uuids
          /\ \A t \in DOMAIN threads :
               Publishes(t) =>
                   /\ threads'[t].result_id \notin DOMAIN RESULTS_CACHE
                   /\ threads'[t].result_id \in DOMAIN RESULTS_CACHE'
                   /\ RESULTS_CACHE'[threads'[t].result_id].coverage_end
                          = (IF job.error = "None" THEN threads[t].latest_block
                             ELSE job'.coverage_end)
                   /\ RESULTS_CACHE'[threads'[t].result_id].segments = job.segments
     ]_vars

\* a job marked done without error, after a stop and a resume, whose Result
\* was evicted by the Results of other jobs before done was set
C34_Witness ==
    /\ DoneClean(job)
    /\ Len(threads) > 1
    /\ job.segments # <<>>
    /\ job.rid # None
    /\ Val(job.rid) \notin DOMAIN RESULTS_CACHE
    /\ \A w \in DOMAIN pub : pub[w].pc = "done"

(***************************************************************************)
(* Properties of the lifecycle flags.                                      *)
(***************************************************************************)
\* how many of running, paused and done the job dict shows
FlagCount(j) ==
    (IF j.running THEN 1 ELSE 0) + (IF j.paused THEN 1 ELSE 0)
        + (IF j.done THEN 1 ELSE 0)

\* C35: in every state between lock blocks at most one of running, paused
\* and done is true; and the step in which a worker pauses the job leaves it
\* with no error and stop_requested false.
C35_FlagsExclusive ==
    /\ [](FlagCount(job) <= 1)
    /\ [][(job'.paused /\ ~job.paused) =>
              /\ job'.error = "None"
              /\ ~job'.stop_requested
              /\ ~job'.running /\ ~job'.done
              /\ job.running /\ job.stop_requested
      ]_vars

\* a job paused inside the page loop of its second window
C35_Witness ==
    /\ job.paused
    /\ job.segments # <<>>
    /\ job.segments_done > Len(job.segments)
    /\ ~job.stop_requested

\* what crawl_status reports of the fields that a finished job keeps
Snapshot(j) ==
    [done |-> j.done, running |-> j.running, paused |-> j.paused,
     error |-> j.error,
     rid |-> (IF j.done /\ j.rid # None THEN j.rid ELSE None),
     coverage_end |-> j.coverage_end]

\* C36: done is absorbing and final: once the job shows done, no step
\* changes the done, running, paused, error, rid or coverage_end it reports,
\* whatever crawl_stop and crawl_resume calls arrive.
C36_DoneIsFinal ==
    [][job.done => Snapshot(job') = Snapshot(job)]_vars

(***************************************************************************)
(* Properties of the counters a job reports.                               *)
(***************************************************************************)
\* C37: whenever the job is paused or done, segments_done equals the number
\* of segments in its segment list, also after stop/resume cycles in which
\* the stop was seen inside a window's page loop.
C37_SegmentsDoneIsCount ==
    (job.paused \/ job.done) => job.segments_done = Len(job.segments)

\* the thread is between two window fetches, or past the last one
BetweenFetches(l) == l.pc \in {"loop", "progress", "finish", "mark_done"}

\* C38: the pages_used that fetch_txlist_window returns is the number of
\* page requests it issued, in every exit case, so that the pages_total of
\* the run, after each return, is the number of page requests issued so far.
C38_PagesUsedIsRequests ==
    \A t \in DOMAIN threads :
        BetweenFetches(threads[t]) => threads[t].pages_total = page_requests

(***************************************************************************)
(* Properties of the merge.                                                *)
(***************************************************************************)
\* the records the upstream returned for the windows of the segments
SegmentRecords(segs) ==
    UNION { { Served(ledger, segs[n].start, segs[n].end)[i] :
                  i \in 1..segs[n].tx_count } : n \in 1..Len(segs) }

\* the records a sequence holds
Records(s) == { s[i] : i \in 1..Len(s) }

C40_RunningJobTracked ==
    /\ job.running => Tracked
    /\ (\E t \in DOMAIN threads : threads[t].pc \in {"f_pre", "f_wait"}) => Tracked

=============================================================================
